---- MODULE Spec2Model ----
(***************************************************************************)
(* Model of merge-translations.py (Opal): the Language identifier, the     *)
(* TranslatedString record with its compatibility score and content        *)
(* equality, and the Merger's string / pair / catalogue merge.             *)
(*                                                                         *)
(* Text is modelled as sequences of one-character strings where the code   *)
(* inspects characters (language tags), and as opaque tokens where the     *)
(* code only compares or copies it (translations, comments, contexts).     *)
(***************************************************************************)
EXTENDS Integers, Sequences, FiniteSets, TLC

VARIABLES
    pc,          \* position of the scenario being run
    tag,         \* Language.from_str: the input string
    language,    \* Language.from_str: the Language returned
    rendered,    \* Language.__str__ of `language`
    other,       \* Language.is_subset_of: the argument
    subset,      \* Language.is_subset_of: the result ("unset", "yes", "no")
    overwrite,        \* Merger.overwrite (args.overwrite)
    source_before,    \* _do_merge_string: the source-side occurrences as passed
    source_options,   \* _do_merge_string: the source-side occurrences (after the call)
    target_before,    \* _do_merge_string: the target-side occurrences as passed
    target_options,   \* _do_merge_string: the target-side occurrences (mutated)
    changes,          \* _do_merge_string: the returned change count
    alternatives,     \* _do_merge_string: the returned alternatives
    priority,         \* TranslatedString.compatibility: the returned score, -1 before the call
    target_file,      \* a target TsFile (a key of Merger.pairs), mutated by the merge
    target_loaded,    \* the target TsFile as loaded
    matches,          \* Merger.pairs[target]: the source TsFiles paired with it
    merged,           \* number of sources of `matches` merged so far
    total_changes,    \* _merge: total_changes of the target
    total_ambiguous,  \* _merge: total_ambiguous of the target
    overall_changes,              \* Merger.overall_changes
    overall_alternatives_count,   \* Merger.overall_alternatives_count
    overall_alternatives,         \* Merger.overall_alternatives[target]
    reverse_file,     \* a second run: the first run's source as target, after its merge
    target_dir,       \* the names of the files in the directory of args.target[0]
    target_arg,       \* args.target[0]: <<>> for the directory, else the name of a file in it
    base_catalogue,   \* Merger.base_catalogue: a file name, <<>> when there is none
    error,            \* the exception that ended the run, "" when there is none
    force,            \* args.force
    output,           \* args.output: "none", or a directory that is "new" or "exists"
    source_args,      \* args.source: the directories and files named as sources
    output_dir,       \* the disk: is the directory of args.output "absent" or "present"
    written,          \* the disk: the files written by _save, by file name
    collected_target,   \* Merger.target
    collected_sources,  \* Merger.sources
    pairs,            \* Merger.pairs, in insertion order
    no_match,         \* Merger.no_match
    not_handled,      \* Merger.not_handled
    new_catalogues,   \* Merger.new_catalogues, in insertion order
    position,         \* _merge, interactive: index of the next key of sorted(all_alts.keys())
    prefer_all,       \* _merge, interactive: prefer_all, "" for None
    resolved,         \* the strings the interactive loop went through, and how
    interactive,      \* args.interactive
    reported,         \* what _report printed
    groups,           \* Merger.overall_alternatives for several target catalogues
    group             \* _merge, interactive: the loop variable group, 0 while unbound

langVars == <<tag, language, rendered, other, subset>>

stringVars == <<overwrite, source_before, source_options, target_before,
                target_options, changes, alternatives, priority>>

runVars == <<target_file, target_loaded, matches, merged, total_changes,
             total_ambiguous, overall_changes, overall_alternatives_count,
             overall_alternatives, reverse_file>>

detectVars == <<target_dir, target_arg, base_catalogue, error>>

\* the variables of the stages of Merger.run around the merge
argVars == <<force, output, source_args, interactive>>

diskVars == <<output_dir, written>>

mergerVars == <<collected_target, collected_sources, pairs, no_match,
                not_handled, new_catalogues>>

pickVars == <<position, prefer_all, resolved>>

reportVars == <<reported, groups, group>>

stageVars == <<detectVars, argVars, diskVars, mergerVars, pickVars, reportVars>>

vars == <<pc, langVars, stringVars, runVars, stageVars>>

(***************************************************************************)
(* Bounds                                                                  *)
(***************************************************************************)
MaxTagLen == 5
MaxCandidates == 2
MaxSources == 2
MaxOccurrences == 2
\* the target catalogues one interactive run goes through
MaxGroups == 2

(***************************************************************************)
(* Language (src/merge-translations.py:34-81)                              *)
(***************************************************************************)
LowerLetters == {"a", "b"}
UpperLetters == {"A", "B"}
Letters == LowerLetters \cup UpperLetters
Separators == {"_", "-"}
Newline == "\n"

\* characters the enumerated tags are built from
TagChars == {"a", "b", "A", "B", "_", "-", Newline}

Tags == UNION {[1..k -> TagChars] : k \in 0..MaxTagLen}

\* str.lower() / str.upper() on one character
lower(c) == CASE c = "A" -> "a" [] c = "B" -> "b" [] OTHER -> c
upper(c) == CASE c = "a" -> "A" [] c = "b" -> "B" [] OTHER -> c

LowerStr(s) == [i \in 1..Len(s) |-> lower(s[i])]
UpperStr(s) == [i \in 1..Len(s) |-> upper(s[i])]

Language(l, a) == [lang |-> l, area |-> a]

\* values of the variables a scenario does not use
NoFile == [path |-> "", strings |-> <<>>]

LangIdle ==
    /\ tag = <<>>
    /\ language = [lang |-> <<>>, area |-> <<>>]
    /\ rendered = <<>>
    /\ other = [lang |-> <<>>, area |-> <<>>]
    /\ subset = "unset"

StringIdle ==
    /\ source_before = <<>>
    /\ source_options = <<>>
    /\ target_before = <<>>
    /\ target_options = <<>>
    /\ changes = 0
    /\ alternatives = <<>>
    /\ priority = -1

RunIdle ==
    /\ target_file = NoFile
    /\ target_loaded = NoFile
    /\ matches = <<>>
    /\ merged = 0
    /\ total_changes = 0
    /\ total_ambiguous = 0
    /\ overall_changes = 0
    /\ overall_alternatives_count = 0
    /\ overall_alternatives = <<>>
    /\ reverse_file = NoFile

DetectIdle ==
    /\ target_dir = {}
    /\ target_arg = <<>>
    /\ base_catalogue = <<>>
    /\ error = ""

\* Python's None where an object is expected
None == [none |-> TRUE]

PipelineIdle ==
    /\ force = FALSE
    /\ output = "none"
    /\ source_args = <<>>
    /\ interactive = FALSE
    /\ output_dir = "absent"
    /\ written = <<>>
    /\ collected_target = None
    /\ collected_sources = <<>>
    /\ pairs = <<>>
    /\ no_match = <<>>
    /\ not_handled = <<>>
    /\ new_catalogues = <<>>

\* nothing printed by _report yet
NoReport == [printed |-> FALSE]

PickIdle ==
    /\ position = 1
    /\ prefer_all = ""
    /\ resolved = <<>>
    /\ reported = NoReport
    /\ groups = <<>>
    /\ group = 0

StageIdle == DetectIdle /\ PipelineIdle /\ PickIdle

EmptyLanguage == Language(<<>>, <<>>)

is_empty(l) == l.lang = <<>>

\* '$' of re.match also matches before one trailing newline
AtEnd(s, n) == Len(s) = n \/ (Len(s) = n + 1 /\ s[n + 1] = Newline)

\* ^(?P<lang>[a-z]{2})[_-](?P<area>[A-Z]{2})$
MatchesRegion(s) ==
    /\ AtEnd(s, 5)
    /\ s[1] \in LowerLetters /\ s[2] \in LowerLetters
    /\ s[3] \in Separators
    /\ s[4] \in UpperLetters /\ s[5] \in UpperLetters

\* ^(?P<lang>[a-zA-Z]{2})$
MatchesBare(s) ==
    /\ AtEnd(s, 2)
    /\ s[1] \in Letters /\ s[2] \in Letters

\* mutant: the region pattern written with '_' as its only separator
from_str_underscore_only(s) ==
    IF MatchesRegion(s) /\ s[3] = "_" THEN Language(<<s[1], s[2]>>, <<s[4], s[5]>>)
    ELSE IF MatchesBare(s) THEN Language(LowerStr(<<s[1], s[2]>>), <<>>)
    ELSE EmptyLanguage

from_str(s) ==
    IF MatchesRegion(s) THEN Language(<<s[1], s[2]>>, <<s[4], s[5]>>)
    ELSE IF MatchesBare(s) THEN Language(LowerStr(<<s[1], s[2]>>), <<>>)
    ELSE EmptyLanguage

\* mutant: either side's empty area matches
is_subset_of_symmetric(self, oth) ==
    IF self.lang # oth.lang THEN FALSE
    ELSE IF self.area # <<>> /\ oth.area # <<>> /\ self.area # oth.area THEN FALSE
    ELSE TRUE

\* mutant: areas must be equal
is_subset_of_strict(self, oth) ==
    IF self.lang # oth.lang THEN FALSE
    ELSE self.area = oth.area

is_subset_of(self, oth) ==
    IF self.lang # oth.lang THEN FALSE
    ELSE IF self.area # <<>> /\ oth.area # <<>> /\ self.area # oth.area THEN FALSE
    ELSE IF self.area # <<>> /\ oth.area = <<>> THEN TRUE
    ELSE IF self.area = <<>> /\ oth.area # <<>> THEN FALSE
    ELSE TRUE

\* Language.__str__
LanguageStr(l) ==
    IF l.area # <<>> THEN LowerStr(l.lang) \o <<"_">> \o UpperStr(l.area)
    ELSE LowerStr(l.lang)

\* the languages is_subset_of is called with as `other`; every Language of a
\* run is built by from_str (or is the empty language)
OtherTags == {
    <<>>,
    <<"a", "a">>, <<"a", "b">>,
    <<"a", "a", "_", "A", "A">>, <<"a", "a", "_", "A", "B">>,
    <<"a", "b", "_", "A", "A">> }

OtherLanguages == {from_str(t) : t \in OtherTags}

InitLang ==
    /\ pc = "start"
    /\ tag \in Tags
    /\ language = EmptyLanguage
    /\ rendered = <<>>
    /\ other = EmptyLanguage
    /\ subset = "unset"
    /\ overwrite = FALSE
    /\ StringIdle
    /\ RunIdle
    /\ StageIdle

FromStr ==
    /\ pc = "start"
    /\ language' = from_str(tag)
    /\ pc' = "parsed"
    /\ UNCHANGED <<tag, rendered, other, subset, stringVars, runVars, stageVars>>

Str ==
    /\ pc = "parsed"
    /\ rendered' = LanguageStr(language)
    /\ pc' = "rendered"
    /\ UNCHANGED <<tag, language, other, subset, stringVars, runVars, stageVars>>

IsSubsetOf ==
    /\ pc = "rendered"
    /\ \E o \in OtherLanguages :
        /\ other' = o
        /\ subset' = IF is_subset_of(language, o) THEN "yes" ELSE "no"
    /\ pc' = "compared"
    /\ UNCHANGED <<tag, language, rendered, stringVars, runVars, stageVars>>

NextLang == FromStr \/ Str \/ IsSubsetOf

SpecLang == InitLang /\ [][NextLang]_vars

(***************************************************************************)
(* Claims about Language (checked under SpecLang)                          *)
(***************************************************************************)
Compared == pc = "compared"

\* C3 (as stated): for every language code x and region A,
\* Language(x, "").is_subset_of(Language(x, "")) and
\* Language(x, "").is_subset_of(Language(x, A)) both hold.
C3_UnregionalizedSubsetOfAnyRegion ==
    (Compared /\ ~is_empty(language) /\ language.area = <<>>
        /\ other.lang = language.lang)
    => subset = "yes"

\* C3 (amended): Language(x, "") is a subset of Language(x, "") and of no
\* Language(x, A) with a region A: a source catalogue without a region is
\* paired only with a target catalogue of the same language without a region.
C3_UnregionalizedSubsetOnlyOfItself ==
    (Compared /\ ~is_empty(language) /\ language.area = <<>>)
    => (subset = "yes" <=> other = language)

C3_Witness ==
    /\ Compared /\ ~is_empty(language) /\ language.area = <<>>
    /\ other.lang = language.lang /\ other.area # <<>>
    /\ subset = "no"

\* C4: a language with a region, Language(x, A), is a subset of itself and of
\* Language(x, ""), and of no other language.
C4_RegionalizedSubset ==
    (Compared /\ language.area # <<>>)
    => (subset = "yes" <=>
            (other.lang = language.lang /\ other.area \in {<<>>, language.area}))

C4_Witness ==
    /\ Compared /\ language.area # <<>>
    /\ other.lang = language.lang /\ other.area = <<>>
    /\ subset = "yes"

Rendered == pc \in {"rendered", "compared"}

AnyCaseBare(t) == Len(t) = 2 /\ \A i \in 1..2 : t[i] \in Letters

AnyCaseRegion(t) ==
    /\ Len(t) = 5
    /\ \A i \in {1, 2, 4, 5} : t[i] \in Letters
    /\ t[3] \in Separators

ExactCaseRegion(t) ==
    /\ Len(t) = 5
    /\ \A i \in {1, 2} : t[i] \in LowerLetters
    /\ \A i \in {4, 5} : t[i] \in UpperLetters
    /\ t[3] \in Separators

Canonical(t) ==
    IF Len(t) = 2 THEN LowerStr(t)
    ELSE LowerStr(SubSeq(t, 1, 2)) \o <<"_">> \o UpperStr(SubSeq(t, 4, 5))

WithoutTrailingNewline(t) ==
    IF Len(t) > 0 /\ t[Len(t)] = Newline THEN SubSeq(t, 1, Len(t) - 1) ELSE t

\* C5 (as stated): if t is a 2-letter code, or a 2-letter code plus a 2-letter
\* region joined by '_' or '-', str(Language.from_str(t)) is the canonical
\* form 'xx' or 'xx_YY'; for every other t from_str(t) is the empty language.
C5_RoundTripAnyCase ==
    Rendered =>
        IF AnyCaseBare(tag) \/ AnyCaseRegion(tag)
        THEN rendered = Canonical(tag)
        ELSE language = EmptyLanguage

\* C5 (amended): ignoring one trailing newline, if t is two letters of any
\* case, or two lower-case letters, '_' or '-', and two upper-case letters,
\* str(Language.from_str(t)) is the canonical form and the Language holds a
\* lower-case lang and an upper-case area; for every other t from_str(t) is
\* the empty language.
C5_RoundTripExactCaseRegion ==
    Rendered =>
        LET t == WithoutTrailingNewline(tag) IN
        IF AnyCaseBare(t) \/ ExactCaseRegion(t)
        THEN /\ rendered = Canonical(t)
             /\ language.lang = LowerStr(language.lang)
             /\ language.area = UpperStr(language.area)
        ELSE language = EmptyLanguage

C5_Witness ==
    /\ pc = "rendered"
    /\ tag = <<"a", "b", "-", "A", "B">>
    /\ rendered = <<"a", "b", "_", "A", "B">>

(***************************************************************************)
(* TranslatedString (src/merge-translations.py:84-198)                     *)
(*                                                                         *)
(* An occurrence is the TranslatedString object together with the nodes of *)
(* the parsed tree it points into:                                         *)
(*   source, context, comment, origin   the dataclass fields               *)
(*   node_comment   text of the <comment> child of the message ("" = none) *)
(*   numerus        the message has numerus="yes"                          *)
(*   finished       the translation's type attribute is not "unfinished"   *)
(*   text           the text directly inside <translation> ("" = none)     *)
(*   forms          the texts of its <numerusform> children, in order      *)
(***************************************************************************)
TranslatedString(src, ctx, cmt, org, num, fin, txt, frm) ==
    [source |-> src, context |-> ctx, comment |-> cmt, origin |-> org,
     node_comment |-> cmt, numerus |-> num, finished |-> fin,
     text |-> txt, forms |-> frm]

is_finished(s) == s.finished

has_plurals(s) == s.numerus

\* get_text(strip=True) != ''
has_content(s) == s.text # "" \/ \E i \in 1..Len(s.forms) : s.forms[i] # ""

\* translation.get_text(): the text of the node and of its children
get_text(s) == <<s.text>> \o s.forms

\* the value None of Tag.string, and what str() makes of it
NoString == "<None>"

StrOf(v) == IF v = NoString THEN "None" ELSE v

\* Tag.string of <translation>: its only child if that is a text, the string
\* of its only child if that is a tag, None otherwise
translation_string(s) ==
    IF s.forms = <<>> THEN (IF s.text = "" THEN NoString ELSE s.text)
    ELSE IF Len(s.forms) = 1 /\ s.text = ""
         THEN (IF s.forms[1] = "" THEN NoString ELSE s.forms[1])
         ELSE NoString

\* WARNING Opal-specific special cases (line 109)
AboutContexts == {"Opal.About.Common", "AboutPage"}

context_priority(self, oth) ==
    IF self.context = oth.context THEN 4
    ELSE IF "Opal.About.Common" \in {self.context, oth.context}
            /\ "AboutPage" \in {self.context, oth.context} THEN 4
    ELSE 0

\* mutant: a comment on one side only counts like equal comments
compatibility_any_comment(self, oth) ==
    IF self.source # oth.source THEN 0
    ELSE IF self.comment # oth.comment /\ self.comment # "" /\ oth.comment # "" THEN 0
    ELSE IF has_plurals(self) # has_plurals(oth) THEN 0
    ELSE context_priority(self, oth) + 2 + 1
         + (IF Len(self.forms) = Len(oth.forms) THEN 1 ELSE 0)

compatibility(self, oth) ==
    IF self.source # oth.source THEN 0
    ELSE IF self.comment # oth.comment /\ self.comment # "" /\ oth.comment # "" THEN 0
    ELSE IF has_plurals(self) # has_plurals(oth) THEN 0
    ELSE context_priority(self, oth)
         + (IF self.comment = oth.comment THEN 2 ELSE 1)
         + 1
         + (IF Len(self.forms) = Len(oth.forms) THEN 1 ELSE 0)

\* mutant: content equality that ignores the finished flag
eq_ignoring_finished(self, oth) ==
    IF \/ self.source # oth.source
       \/ has_plurals(self) # has_plurals(oth)
       \/ self.comment # oth.comment
    THEN FALSE
    ELSE IF has_plurals(self) THEN self.forms = oth.forms
    ELSE translation_string(self) = translation_string(oth)

\* TranslatedString.__eq__ (context deliberately not compared)
eq(self, oth) ==
    IF \/ self.source # oth.source
       \/ has_plurals(self) # has_plurals(oth)
       \/ is_finished(self) # is_finished(oth)
       \/ self.comment # oth.comment
    THEN FALSE
    ELSE IF has_plurals(self) THEN self.forms = oth.forms
    ELSE translation_string(self) = translation_string(oth)

\* TranslatedString.__hash__: hash(str(origin) + str(translation))
hash(s) == <<s.origin, s.finished, s.text, s.forms>>

\* two occurrences are the same key of a dict
same_key(a, b) == hash(a) = hash(b) /\ eq(a, b)

\* TranslatedString.set_comment: writes the node, not the comment field
set_comment(s, value) == [s EXCEPT !.node_comment = value]

(***************************************************************************)
(* Merger._do_merge_string (src/merge-translations.py:517-566)             *)
(***************************************************************************)
\* lines 527-533: the candidates that score above 0, sorted by ascending
\* score with a stable sort, and the first of them taken: the index of the
\* first candidate with the lowest score above 0 (0 when there is none)
matching_source(target, options) ==
    LET matching == {i \in 1..Len(options) : compatibility(target, options[i]) > 0}
    IN IF matching = {} THEN 0
       ELSE CHOOSE i \in matching : \A j \in matching :
                \/ compatibility(target, options[i]) < compatibility(target, options[j])
                \/ /\ compatibility(target, options[i]) = compatibility(target, options[j])
                   /\ i <= j

\* mutant: every occurrence may be overwritten
blocked_never(target, ow, self_overwrite) == FALSE

\* mutant: an occurrence with content may not be overwritten, finished or not
blocked_with_content(target, ow, self_overwrite) ==
    /\ has_content(target)
    /\ \/ (ow = "None" /\ ~self_overwrite)
       \/ (ow # "None" /\ ow = "False")

\* mutant: the overwrite argument of the call is not looked at
blocked_whatever_argument(target, ow, self_overwrite) ==
    is_finished(target) /\ has_content(target) /\ ~self_overwrite

\* lines 541-543: the occurrence may not be overwritten
\* (ow is the overwrite argument: "None", "True" or "False")
blocked(target, ow, self_overwrite) ==
    /\ is_finished(target) /\ has_content(target)
    /\ \/ (ow = "None" /\ ~self_overwrite)
       \/ (ow # "None" /\ ow = "False")


\* mutant: the plural forms of the candidate are appended to the target's
apply_appending_forms(target, cand) ==
    LET commented == IF cand.comment # "" /\ target.comment = ""
                     THEN set_comment(target, cand.comment) ELSE target
        filled == IF has_plurals(cand)
                  THEN [commented EXCEPT !.forms = @ \o cand.forms, !.numerus = TRUE]
                  ELSE [commented EXCEPT !.text = StrOf(translation_string(cand)),
                                         !.forms = <<>>]
    IN [filled EXCEPT !.finished = is_finished(cand)]

\* mutant: the candidate's text is copied, the finished flag is left alone
apply_keeping_finished(target, cand) ==
    LET commented == IF cand.comment # "" /\ target.comment = ""
                     THEN set_comment(target, cand.comment) ELSE target
    IN IF has_plurals(cand)
       THEN [commented EXCEPT !.forms = cand.forms, !.numerus = TRUE]
       ELSE [commented EXCEPT !.text = StrOf(translation_string(cand)),
                              !.forms = <<>>]

\* lines 548-562: the candidate is applied to the target occurrence
apply(target, cand) ==
    LET commented == IF cand.comment # "" /\ target.comment = ""
                     THEN set_comment(target, cand.comment) ELSE target
        filled == IF has_plurals(cand)
                  THEN [commented EXCEPT !.forms = cand.forms, !.numerus = TRUE]
                  ELSE [commented EXCEPT !.text = StrOf(translation_string(cand)),
                                         !.forms = <<>>]
    IN [filled EXCEPT !.finished = is_finished(cand)]

\* mutant: the plural-form nodes are moved into the target, not copied
after_move(cand) == [cand EXCEPT !.forms = <<>>]

\* line 556: copy.copy(i) leaves the nodes of the candidate where they are
after_copy(cand) == cand

\* lines 544-545: alternatives[target] gets the candidate unless an equal
\* one is there; alternatives is a dict keyed by TranslatedString
add_alternative(alts, target, cand) ==
    IF \E k \in 1..Len(alts) : same_key(alts[k].key, target)
    THEN LET k == CHOOSE k \in 1..Len(alts) : same_key(alts[k].key, target)
         IN IF \E a \in 1..Len(alts[k].alts) : eq(cand, alts[k].alts[a])
            THEN alts
            ELSE [alts EXCEPT ![k].alts = Append(@, cand)]
    ELSE Append(alts, [key |-> target, alts |-> <<cand>>])

\* one pass of the loop of line 526 over target_options[i]
merge_occurrence(acc, ow, self_overwrite, i) ==
    LET target == acc.targets[i]
        m == matching_source(target, acc.options)
    IN IF m = 0 THEN acc
       ELSE IF ~has_content(acc.options[m]) THEN acc
       ELSE IF eq(target, acc.options[m]) THEN acc
       ELSE IF blocked(target, ow, self_overwrite)
            THEN [acc EXCEPT !.alternatives = add_alternative(@, target, acc.options[m])]
       ELSE [acc EXCEPT !.targets[i] = apply(target, acc.options[m]),
                        !.options[m] = IF has_plurals(@) THEN after_copy(@) ELSE @,
                        !.changes = @ + 1]

RECURSIVE merge_occurrences(_, _, _, _)
merge_occurrences(acc, ow, self_overwrite, i) ==
    IF i > Len(acc.targets) THEN acc
    ELSE merge_occurrences(merge_occurrence(acc, ow, self_overwrite, i),
                           ow, self_overwrite, i + 1)

\* returns (changes, alternatives) with the occurrences of both sides as
\* the call leaves them
do_merge_string(options, targets, ow, self_overwrite) ==
    merge_occurrences([targets |-> targets, options |-> options,
                       changes |-> 0, alternatives |-> <<>>],
                      ow, self_overwrite, 1)

(***************************************************************************)
(* One call of _do_merge_string, as _do_merge_pair makes it (line 578):    *)
(* the occurrences of one source text in a source and a target catalogue.  *)
(***************************************************************************)
Key == "Hi"

Comments == {"", "c", "d"}

\* translations of well-formed catalogues: a text, or numerus="yes" with
\* plural forms; <<numerus, finished, text, forms>>
Translations == {
    <<FALSE, TRUE, "x", <<>> >>,
    <<FALSE, TRUE, "y", <<>> >>,
    <<FALSE, FALSE, "", <<>> >>,
    <<FALSE, FALSE, "y", <<>> >>,
    <<FALSE, TRUE, "", <<>> >>,
    <<TRUE, TRUE, "", <<"x", "y">> >>,
    <<TRUE, FALSE, "", <<"", "">> >>,
    <<TRUE, TRUE, "", <<"y">> >> }

Occurrence(org, ctx, cmt, t) ==
    TranslatedString(Key, ctx, cmt, org, t[1], t[2], t[3], t[4])

CandidateOccurrences ==
    {Occurrence("S", ctx, cmt, t) :
        ctx \in {"A", "B"}, cmt \in {"", "c"},
        t \in Translations \ {<<FALSE, TRUE, "", <<>> >>}}

TargetOccurrences ==
    {Occurrence("T", "A", cmt, t) : cmt \in Comments, t \in Translations}

CandidateLists ==
    UNION {[1..n -> CandidateOccurrences] : n \in 1..MaxCandidates}

InitString ==
    /\ pc = "string_call"
    /\ overwrite \in BOOLEAN
    /\ source_before \in CandidateLists
    /\ source_options = source_before
    /\ target_before \in {<<t>> : t \in TargetOccurrences}
    /\ target_options = target_before
    /\ changes = 0
    /\ alternatives = <<>>
    /\ priority = -1
    /\ LangIdle
    /\ RunIdle
    /\ StageIdle

DoMergeString ==
    /\ pc = "string_call"
    /\ LET r == do_merge_string(source_options, target_options, "None", overwrite)
       IN /\ target_options' = r.targets
          /\ source_options' = r.options
          /\ changes' = r.changes
          /\ alternatives' = r.alternatives
    /\ pc' = "string_done"
    /\ UNCHANGED <<overwrite, source_before, target_before, priority, langVars,
                   runVars, stageVars>>

NextString == DoMergeString

SpecString == InitString /\ [][NextString]_vars

(***************************************************************************)
(* One call of TranslatedString.compatibility                              *)
(* (src/merge-translations.py:101-140) on two occurrences.                 *)
(***************************************************************************)
CompatContexts == {"A", "B", "Opal.About.Common", "AboutPage"}

\* <<numerus, forms>> of the occurrences compared
CompatShapes == {
    <<FALSE, <<>> >>,
    <<TRUE, <<"x">> >>,
    <<TRUE, <<"x", "y">> >>,
    <<TRUE, <<>> >> }

CompatOccurrences(org) ==
    {TranslatedString(src, ctx, cmt, org, t[1], TRUE,
                      IF t[1] THEN "" ELSE "x", t[2]) :
        src \in {"Hi", "Bye"}, ctx \in CompatContexts, cmt \in Comments,
        t \in CompatShapes}

InitCompat ==
    /\ pc = "compat_call"
    /\ overwrite = FALSE
    /\ source_before \in {<<o>> : o \in CompatOccurrences("S")}
    /\ source_options = source_before
    /\ target_before \in {<<o>> : o \in CompatOccurrences("T")}
    /\ target_options = target_before
    /\ changes = 0
    /\ alternatives = <<>>
    /\ priority = -1
    /\ LangIdle
    /\ RunIdle
    /\ StageIdle

\* line 527: target.compatibility(x)
Compatibility ==
    /\ pc = "compat_call"
    /\ priority' = compatibility(target_options[1], source_options[1])
    /\ pc' = "compat_done"
    /\ UNCHANGED <<overwrite, source_before, source_options, target_before,
                   target_options, changes, alternatives, langVars, runVars,
                   stageVars>>

NextCompat == Compatibility

SpecCompat == InitCompat /\ [][NextCompat]_vars

(***************************************************************************)
(* Claims about compatibility (checked under SpecCompat)                   *)
(***************************************************************************)
Scored == pc = "compat_done"

CompatSelf == target_before[1]

CompatOther == source_before[1]

ExactlyOne(p, q) == (p /\ ~q) \/ (~p /\ q)

\* the occurrences cannot be matched at all
Incompatible(a, b) ==
    \/ a.source # b.source
    \/ ExactlyOne(a.numerus, b.numerus)
    \/ (a.comment # "" /\ b.comment # "" /\ a.comment # b.comment)

ContextPoints(a, b) ==
    IF a.context = b.context \/ {a.context, b.context} = {"Opal.About.Common", "AboutPage"}
    THEN 4 ELSE 0

CommentPoints(a, b) ==
    IF a.comment = b.comment THEN 2
    ELSE IF ExactlyOne(a.comment # "", b.comment # "") THEN 1
    ELSE 0

\* C22: compatibility(a, b) is 0 if the source texts differ, if exactly one
\* of the two has plural forms, or if both have non-empty comments that
\* differ; otherwise it is 4 for identical or allow-listed contexts, plus 2
\* for identical comments or 1 when exactly one has a comment, plus 1 for
\* the matching plural-ness, plus 1 for equal numbers of plural forms.
C22_CompatibilityScore ==
    Scored =>
        priority = IF Incompatible(CompatSelf, CompatOther) THEN 0
                   ELSE ContextPoints(CompatSelf, CompatOther)
                        + CommentPoints(CompatSelf, CompatOther)
                        + 1
                        + (IF Len(CompatSelf.forms) = Len(CompatOther.forms)
                           THEN 1 ELSE 0)

\* the allow-listed pair of contexts, a comment on one side only, plural
\* forms on both sides in different numbers: the score is 4 + 1 + 1
C22_Witness ==
    /\ Scored
    /\ CompatSelf.context = "AboutPage" /\ CompatOther.context = "Opal.About.Common"
    /\ CompatSelf.comment = "" /\ CompatOther.comment = "c"
    /\ CompatSelf.numerus /\ CompatOther.numerus
    /\ Len(CompatSelf.forms) # Len(CompatOther.forms)
    /\ priority = 6

(***************************************************************************)
(* Claims about _do_merge_string (checked under SpecString)                *)
(***************************************************************************)
StringDone == pc = "string_done"

\* the target occurrence before and after the call
Before == target_before[1]
After == target_options[1]

\* the candidate with the highest score above 0, the first in input order
\* among equal scores (0 when no candidate scores above 0)
HighestScoreIndex(t, options) ==
    LET scored == {i \in 1..Len(options) : compatibility(t, options[i]) > 0}
    IN IF scored = {} THEN 0
       ELSE CHOOSE i \in scored : \A j \in scored :
                \/ compatibility(t, options[i]) > compatibility(t, options[j])
                \/ /\ compatibility(t, options[i]) = compatibility(t, options[j])
                   /\ i <= j

BestIndex == HighestScoreIndex(Before, source_before)

Best == source_before[BestIndex]

\* the candidate the call selected
Selected == source_before[matching_source(Before, source_before)]

Untouched ==
    /\ target_options = target_before
    /\ changes = 0
    /\ alternatives = <<>>

\* C2: for each target occurrence the candidate with the highest non-zero
\* score is selected, the first in input order among equal highest scores
\* (the call ends as a call with that candidate alone); when no candidate
\* scores above 0 the target occurrence is left untouched.
C2_SelectsHighestScore ==
    StringDone =>
        IF BestIndex = 0 THEN Untouched
        ELSE LET alone == do_merge_string(<<Best>>, target_before, "None", overwrite)
             IN /\ target_options = alone.targets
                /\ changes = alone.changes
                /\ alternatives = alone.alternatives

\* C6: when the target occurrence is unfinished or has no content and its
\* best candidate has content and differs from it, the candidate is applied:
\* the target's text and finished flag are the candidate's and one change is
\* counted.
C6_AppliesBestCandidate ==
    (StringDone /\ BestIndex # 0
        /\ ~(is_finished(Before) /\ has_content(Before))
        /\ has_content(Best) /\ ~eq(Before, Best))
    => /\ get_text(After) = get_text(Best)
       /\ is_finished(After) = is_finished(Best)
       /\ changes = 1

\* C6, complement: the same statement about the candidate the call selected
\* (the first with the lowest score above 0) holds.
C6_AppliesSelectedCandidate ==
    (StringDone /\ matching_source(Before, source_before) # 0
        /\ ~(is_finished(Before) /\ has_content(Before))
        /\ has_content(Selected) /\ ~eq(Before, Selected))
    => /\ get_text(After) = get_text(Selected)
       /\ is_finished(After) = is_finished(Selected)
       /\ changes = 1

SinglePair ==
    /\ StringDone /\ Len(source_before) = 1
    /\ is_finished(Before) /\ has_content(Before)
    /\ is_finished(source_before[1]) /\ has_content(source_before[1])
    /\ get_text(Before) # get_text(source_before[1])
    /\ Before.context = source_before[1].context

OnePairOutcome ==
    IF overwrite
    THEN /\ get_text(After) = get_text(source_before[1])
         /\ changes = 1
         /\ alternatives = <<>>
    ELSE /\ Len(alternatives) = 1
         /\ alternatives[1].alts = <<source_before[1]>>
         /\ changes = 0
         /\ After = Before

\* C7 (as stated): for a finished target occurrence with content and a
\* finished candidate with different content and matching context, with
\* overwrite disabled exactly one alternative is recorded and no change is
\* counted; with overwrite enabled the target's content becomes the
\* candidate's, one change is counted and no alternative is recorded.
C7_FinishedPair == SinglePair => OnePairOutcome

\* C7 (amended): the same, for a candidate that is compatible with the
\* target occurrence: same plural-ness, and comments that are equal or of
\* which one is empty.
C7_FinishedCompatiblePair ==
    (SinglePair /\ compatibility(Before, source_before[1]) > 0) => OnePairOutcome

C7_Witness ==
    /\ SinglePair /\ ~overwrite
    /\ Before.comment = "" /\ source_before[1].comment = "c"
    /\ Len(alternatives) = 1 /\ changes = 0

\* C9: when a candidate with plural forms is applied, the target's plural
\* forms are afterwards the candidate's, form for form and in order, the
\* target's finished flag is the candidate's, and the candidate's own forms
\* are unchanged.
C9_PluralFormsReplaced ==
    (StringDone /\ changes = 1 /\ has_plurals(Selected))
    => /\ After.forms = Selected.forms
       /\ is_finished(After) = is_finished(Selected)
       /\ source_options = source_before

C9_Witness ==
    /\ StringDone /\ changes = 1
    /\ Before.forms = <<"", "">> /\ ~is_finished(Before)
    /\ After.forms = <<"x", "y">> /\ is_finished(After)

(***************************************************************************)
(* One call of _do_merge_string on catalogues whose messages need not be   *)
(* well-formed: <translation> holds a text, <numerusform> nodes or both,   *)
(* whatever the numerus attribute of the message says.                     *)
(***************************************************************************)
\* <<numerus, finished, text, forms>>
ShapeCandidates ==
    {<<num, fin, txt, frm>> :
        num \in BOOLEAN, fin \in BOOLEAN, txt \in {"", "x"},
        frm \in {<<>>, <<"x">>, <<"x", "y">>}}

ShapeTargets ==
    {<<num, fin, txt, frm>> :
        num \in BOOLEAN, fin \in BOOLEAN, txt \in {"", "w"},
        frm \in {<<>>, <<"">>, <<"", "">>, <<"w", "v">>}}

InitShape ==
    /\ pc = "string_call"
    /\ overwrite \in BOOLEAN
    /\ source_before \in {<<Occurrence("S", "A", "", t)>> : t \in ShapeCandidates}
    /\ source_options = source_before
    /\ target_before \in {<<Occurrence("T", "A", "", t)>> : t \in ShapeTargets}
    /\ target_options = target_before
    /\ changes = 0
    /\ alternatives = <<>>
    /\ priority = -1
    /\ LangIdle
    /\ RunIdle
    /\ StageIdle

SpecShape == InitShape /\ [][NextString]_vars

(***************************************************************************)
(* Claims about the plural shape (checked under SpecShape)                 *)
(***************************************************************************)
\* the message has <numerusform> nodes
HasFormNodes(o) == o.forms # <<>>

ShapesDisagree(a, b) == ExactlyOne(HasFormNodes(a), HasFormNodes(b))

\* the call got as far as applying the one candidate to the target
Applicable ==
    /\ matching_source(Before, source_before) = 1
    /\ has_content(Selected)
    /\ ~eq(Before, Selected)
    /\ ~blocked(Before, "None", overwrite)

\* the translation of the target entry is the candidate's
EntryReplaced ==
    /\ After.text = Selected.text
    /\ After.forms = Selected.forms
    /\ After.numerus = Selected.numerus
    /\ After.finished = Selected.finished

\* C26: when the target entry and its candidate disagree on having plural
\* form nodes and the target entry is empty, the merge replaces the target
\* entry by the source entry; when the target is not empty the merge is
\* not blocked.
C26_EmptyTargetReplacedByEntry ==
    (StringDone /\ Applicable /\ ShapesDisagree(Before, Selected)) =>
        IF ~has_content(Before) THEN EntryReplaced /\ changes = 1
        ELSE changes = 1

(***************************************************************************)
(* TsFile and Merger._do_merge_pair (src/merge-translations.py:201-265,    *)
(* 568-584). A TsFile is its path and its strings: source text -> the      *)
(* occurrences of that text, in file order.                                *)
(***************************************************************************)
TsFile(path, strings) == [path |-> path, strings |-> strings]

\* the source texts of the catalogues, in the order the files list them
SourceTexts == <<"Hi", "Bye">>

has_key(file, key) == key \in DOMAIN file.strings

\* one pass of the loop of line 572 over SourceTexts[k]
merge_key(acc, source, self_overwrite, k) ==
    LET key == SourceTexts[k]
    IN IF ~has_key(acc.target, key) \/ ~has_key(source, key) THEN acc
       ELSE LET r == do_merge_string(source.strings[key], acc.target.strings[key],
                                     "None", self_overwrite)
            IN [target |-> [acc.target EXCEPT !.strings[key] = r.targets],
                changes |-> acc.changes + r.changes,
                alternatives |->
                    IF r.alternatives = <<>> THEN acc.alternatives
                    ELSE Append(acc.alternatives,
                                [key |-> key, alts |-> r.alternatives])]

RECURSIVE merge_keys(_, _, _, _)
merge_keys(acc, source, self_overwrite, k) ==
    IF k > Len(SourceTexts) THEN acc
    ELSE merge_keys(merge_key(acc, source, self_overwrite, k),
                    source, self_overwrite, k + 1)

\* returns (changes, alternatives) with the target as the call leaves it
do_merge_pair(source, tgt, self_overwrite) ==
    merge_keys([target |-> tgt, changes |-> 0, alternatives |-> <<>>],
               source, self_overwrite, 1)

(***************************************************************************)
(* Merger._merge, the batch part (src/merge-translations.py:622-649), for  *)
(* one target catalogue and the sources _match paired with it.             *)
(***************************************************************************)
\* line 638: overall_alternatives[target][key][k] += v, for one (k, v)
extend_alternatives(dict, entry) ==
    IF \E i \in 1..Len(dict) : same_key(dict[i].key, entry.key)
    THEN LET i == CHOOSE i \in 1..Len(dict) : same_key(dict[i].key, entry.key)
         IN [dict EXCEPT ![i].alts = @ \o entry.alts]
    ELSE Append(dict, entry)

RECURSIVE extend_all(_, _, _)
extend_all(dict, entries, n) ==
    IF n > Len(entries) THEN dict
    ELSE extend_all(extend_alternatives(dict, entries[n]), entries, n + 1)

\* lines 636-638 for one key of the pair's alternatives
add_key_alternatives(overall, found) ==
    IF \E i \in 1..Len(overall) : overall[i].key = found.key
    THEN LET i == CHOOSE i \in 1..Len(overall) : overall[i].key = found.key
         IN [overall EXCEPT ![i].alts = extend_all(@, found.alts, 1)]
    ELSE Append(overall, [key |-> found.key, alts |-> extend_all(<<>>, found.alts, 1)])

RECURSIVE add_pair_alternatives(_, _, _)
add_pair_alternatives(overall, found, n) ==
    IF n > Len(found) THEN overall
    ELSE add_pair_alternatives(add_key_alternatives(overall, found[n]), found, n + 1)


\* the occurrences of "Hi" in the catalogues of a run:
\* <<context, comment, finished, text>>
RunTranslations == {
    <<"A", "", TRUE, "x">>, <<"A", "", TRUE, "y">>, <<"A", "", FALSE, "">>,
    <<"B", "", TRUE, "x">>, <<"B", "", TRUE, "y">>,
    <<"A", "c", TRUE, "y">> }

RunOccurrence(path, t) ==
    TranslatedString("Hi", t[1], t[2], path, FALSE, t[3], t[4], <<>>)

\* "Bye" occurs once, or not at all, in a catalogue: untranslated in a
\* target, translated in a source
ByeOccurrence(path, fin, txt) ==
    TranslatedString("Bye", "A", "", path, FALSE, fin, txt, <<>>)

\* the lists of 1..MaxOccurrences occurrences of "Hi" with translations of
\* ts; the messages of one source text in a file differ in context or comment
HiLists(path, ts) ==
    UNION {{[i \in 1..n |-> RunOccurrence(path, f[i])] :
                f \in {g \in [1..n -> ts] :
                          \A i, j \in 1..n :
                              i # j => <<g[i][1], g[i][2]>> # <<g[j][1], g[j][2]>>}} :
            n \in 1..MaxOccurrences}

WithBye(path, h, fin, txt) ==
    TsFile(path, [k \in {"Hi", "Bye"} |->
                    IF k = "Hi" THEN h ELSE <<ByeOccurrence(path, fin, txt)>>])

\* a catalogue that also lists "Bye" lists "Hi" once
Catalogues(path, ts, fin, txt) ==
    {TsFile(path, [k \in {"Hi"} |-> h]) : h \in HiLists(path, ts)}
    \cup {WithBye(path, <<RunOccurrence(path, t)>>, fin, txt) : t \in ts}

TargetCatalogues == Catalogues("t", RunTranslations, FALSE, "")

SourceCatalogues(path) == Catalogues(path, RunTranslations, TRUE, "z")

SourcePaths == <<"s1", "s2", "s3", "s4">>

RECURSIVE SourceListsOf(_)
SourceListsOf(n) ==
    IF n = 0 THEN {<<>>}
    ELSE {Append(l, c) : l \in SourceListsOf(n - 1), c \in SourceCatalogues(SourcePaths[n])}

\* the lists of 1..most source catalogues paired with the target
SourceLists(most) == UNION {SourceListsOf(n) : n \in 1..most}

Init ==
    /\ pc = "merge"
    /\ overwrite \in BOOLEAN
    /\ target_loaded \in TargetCatalogues
    /\ target_file = target_loaded
    /\ matches \in SourceLists(MaxSources)
    /\ merged = 0
    /\ total_changes = 0
    /\ total_ambiguous = 0
    /\ overall_changes = 0
    /\ overall_alternatives_count = 0
    /\ overall_alternatives = <<>>
    /\ reverse_file = NoFile
    /\ LangIdle
    /\ StringIdle
    /\ StageIdle

\* lines 630-640: the next source of the target is merged into it
MergePair ==
    /\ pc = "merge"
    /\ merged < Len(matches)
    /\ LET r == do_merge_pair(matches[merged + 1], target_file, overwrite)
       IN /\ target_file' = r.target
          /\ total_changes' = total_changes + r.changes
          /\ total_ambiguous' = total_ambiguous + Len(r.alternatives)
          /\ overall_alternatives' =
                add_pair_alternatives(overall_alternatives, r.alternatives, 1)
    /\ merged' = merged + 1
    /\ UNCHANGED <<pc, overwrite, target_loaded, matches, overall_changes,
                   overall_alternatives_count, reverse_file, langVars, stringVars, stageVars>>

\* lines 642-644: the totals of the target are added to the overall counts
MergeTotals ==
    /\ pc = "merge"
    /\ merged = Len(matches)
    /\ overall_changes' = overall_changes + total_changes
    /\ overall_alternatives_count' = overall_alternatives_count + total_ambiguous
    /\ pc' = "merged"
    /\ UNCHANGED <<overwrite, target_file, target_loaded, matches, merged,
                   total_changes, total_ambiguous, overall_alternatives,
                   reverse_file, langVars, stringVars, stageVars>>

Next == MergePair \/ MergeTotals

Spec == Init /\ [][Next]_vars

(***************************************************************************)
(* Two runs with the roles reversed: catalogue B is merged into catalogue  *)
(* A, then the updated A is merged into B as it was loaded.                *)
(***************************************************************************)
RoundTripTranslations ==
    RunTranslations \cup {<<"A", "", FALSE, "y">>, <<"B", "", FALSE, "x">>}

InitRoundTrip ==
    /\ pc = "merge"
    /\ overwrite \in BOOLEAN
    /\ target_loaded \in Catalogues("a", RoundTripTranslations, FALSE, "")
    /\ target_file = target_loaded
    /\ matches \in {<<b>> : b \in Catalogues("b", RoundTripTranslations, TRUE, "z")}
    /\ merged = 0
    /\ total_changes = 0
    /\ total_ambiguous = 0
    /\ overall_changes = 0
    /\ overall_alternatives_count = 0
    /\ overall_alternatives = <<>>
    /\ reverse_file = NoFile
    /\ LangIdle
    /\ StringIdle
    /\ StageIdle

\* the second run: _merge with the first run's source, as loaded, as the
\* target and the first run's merged target as its only source
MergeBack ==
    /\ pc = "merged"
    /\ reverse_file' = do_merge_pair(target_file, matches[1], overwrite).target
    /\ pc' = "round_trip"
    /\ UNCHANGED <<overwrite, target_file, target_loaded, matches, merged,
                   total_changes, total_ambiguous, overall_changes,
                   overall_alternatives_count, overall_alternatives,
                   langVars, stringVars, stageVars>>

NextRoundTrip == MergePair \/ MergeTotals \/ MergeBack

SpecRoundTrip == InitRoundTrip /\ [][NextRoundTrip]_vars

(***************************************************************************)
(* Claims about the batch merge of one target catalogue (checked under     *)
(* Spec)                                                                   *)
(***************************************************************************)
\* the occurrences of a catalogue, as (source text, position) pairs
Places(file) ==
    {<<k, i>> : k \in DOMAIN file.strings, i \in 1..MaxOccurrences} \cap
    UNION {{<<k, i>> : i \in 1..Len(file.strings[k])} : k \in DOMAIN file.strings}

At(file, p) == file.strings[p[1]][p[2]]

Translated(o) == is_finished(o) /\ has_content(o)

\* the candidate cand, or one of equal content, is listed as an alternative
\* of the target occurrence o
Recorded(o, cand) ==
    \E e \in 1..Len(overall_alternatives) :
        /\ overall_alternatives[e].key = o.source
        /\ \E d \in 1..Len(overall_alternatives[e].alts) :
            /\ same_key(overall_alternatives[e].alts[d].key, o)
            /\ \E a \in 1..Len(overall_alternatives[e].alts[d].alts) :
                eq(overall_alternatives[e].alts[d].alts[a], cand)

FinishedOccurrencesKept ==
    \A p \in Places(target_loaded) :
        Translated(At(target_loaded, p)) => At(target_file, p) = At(target_loaded, p)

\* C1: with overwrite disabled, every target occurrence that is finished and
\* has content before merging keeps its text, plural forms, comment and
\* finished flag whatever sources are merged in whatever order, and each
\* differing best candidate is recorded as an alternative.
C1_FinishedKeptAndBestRecorded ==
    ~overwrite =>
        /\ FinishedOccurrencesKept
        /\ \A p \in Places(target_loaded) : \A j \in 1..merged :
            LET o == At(target_loaded, p)
                options == IF has_key(matches[j], p[1])
                           THEN matches[j].strings[p[1]] ELSE <<>>
                b == HighestScoreIndex(o, options)
            IN (Translated(o) /\ b # 0 /\ has_content(options[b]) /\ ~eq(o, options[b]))
               => Recorded(o, options[b])

\* C1, complement: the finished occurrences are kept, and the differing
\* candidate the code selects (the first with the lowest score above 0) is
\* recorded.
C1_FinishedKeptAndSelectedRecorded ==
    ~overwrite =>
        /\ FinishedOccurrencesKept
        /\ \A p \in Places(target_loaded) : \A j \in 1..merged :
            LET o == At(target_loaded, p)
                options == IF has_key(matches[j], p[1])
                           THEN matches[j].strings[p[1]] ELSE <<>>
                b == matching_source(o, options)
            IN (Translated(o) /\ b # 0 /\ has_content(options[b]) /\ ~eq(o, options[b]))
               => Recorded(o, options[b])

\* the two catalogues hold the same strings with the same content
SameContent(a, b) ==
    /\ DOMAIN a.strings = DOMAIN b.strings
    /\ \A k \in DOMAIN a.strings :
        /\ Len(a.strings[k]) = Len(b.strings[k])
        /\ \A i \in 1..Len(a.strings[k]) :
            [a.strings[k][i] EXCEPT !.origin = ""] = [b.strings[k][i] EXCEPT !.origin = ""]

AllTranslated(file) == \A p \in Places(file) : Translated(At(file, p))

\* C8: merging a target against a source with exactly the same finished
\* content is a no-op: no change counted, no alternative recorded, every
\* target occurrence unchanged.
C8_SameContentIsNoOp ==
    (merged = 1 /\ SameContent(matches[1], target_loaded) /\ AllTranslated(target_loaded))
    => /\ total_changes = 0
       /\ total_ambiguous = 0
       /\ overall_alternatives = <<>>
       /\ target_file = target_loaded

\* C8, complement: the same holds when no source text occurs twice.
C8_SameContentSingleOccurrences ==
    (merged = 1 /\ SameContent(matches[1], target_loaded) /\ AllTranslated(target_loaded)
        /\ \A k \in DOMAIN target_loaded.strings : Len(target_loaded.strings[k]) = 1)
    => /\ total_changes = 0
       /\ total_ambiguous = 0
       /\ overall_alternatives = <<>>
       /\ target_file = target_loaded

\* every source text of the catalogue occurs once in it
SingleOccurrences(file) ==
    \A k \in DOMAIN file.strings : Len(file.strings[k]) = 1

\* the target occurrences the first source fills: those that are neither
\* finished nor translated and have a translated candidate
FilledByFirst ==
    {k \in DOMAIN target_loaded.strings \cap DOMAIN matches[1].strings :
        /\ ~is_finished(target_loaded.strings[k][1])
        /\ ~has_content(target_loaded.strings[k][1])
        /\ has_content(matches[1].strings[k][1])
        /\ compatibility(target_loaded.strings[k][1], matches[1].strings[k][1]) > 0}

\* C27: after the first source has filled the occurrences of the target, a
\* second source whose candidates have the same text, comment, plural-ness
\* and finished flag counts no change and records no alternative, with or
\* without a comment on the candidates.
C27_RepeatedCandidateIsNoOp ==
    (/\ merged = 2
     /\ SingleOccurrences(target_loaded)
     /\ SingleOccurrences(matches[1])
     /\ SameContent(matches[1], matches[2])
     /\ FilledByFirst = DOMAIN target_loaded.strings \cap DOMAIN matches[1].strings)
    => /\ total_changes = Cardinality(FilledByFirst)
       /\ total_ambiguous = 0
       /\ overall_alternatives = <<>>

(***************************************************************************)
(* Claims about the round trip (checked under SpecRoundTrip)               *)
(***************************************************************************)
RoundTripDone == pc = "round_trip"

\* the text of the occurrence at p of `before` is the text of an occurrence
\* of the same source text of `after`
TextPresent(before, after, p) ==
    \E q \in Places(after) :
        q[1] = p[1] /\ get_text(At(after, q)) = get_text(At(before, p))

\* C10 (as stated): after merging B into A and the updated A into the
\* original B, every non-empty translation text that A or B held before the
\* first merge is still present in the catalogue that held it.
C10_NoTextRemoved ==
    RoundTripDone =>
        /\ \A p \in Places(target_loaded) :
            has_content(At(target_loaded, p)) => TextPresent(target_loaded, target_file, p)
        /\ \A p \in Places(matches[1]) :
            has_content(At(matches[1], p)) => TextPresent(matches[1], reverse_file, p)

\* C10 (amended): with overwrite disabled, every non-empty translation text
\* of a finished occurrence of A or of B is, after the two merges, still the
\* text of that occurrence in the catalogue that held it.
C10_NoFinishedTextRemoved ==
    (RoundTripDone /\ ~overwrite) =>
        /\ \A p \in Places(target_loaded) :
            Translated(At(target_loaded, p))
                => get_text(At(target_file, p)) = get_text(At(target_loaded, p))
        /\ \A p \in Places(matches[1]) :
            Translated(At(matches[1], p))
                => get_text(At(reverse_file, p)) = get_text(At(matches[1], p))

\* both catalogues hold a finished text for the same message, the texts
\* differ, and both merges changed something else
C10_Witness ==
    /\ RoundTripDone /\ ~overwrite
    /\ \E p \in Places(target_loaded), q \in Places(matches[1]) :
        /\ Translated(At(target_loaded, p)) /\ Translated(At(matches[1], q))
        /\ At(target_loaded, p).context = At(matches[1], q).context
        /\ At(target_loaded, p).comment = At(matches[1], q).comment
        /\ get_text(At(target_loaded, p)) # get_text(At(matches[1], q))
    /\ target_file # target_loaded
    /\ reverse_file # matches[1]

(***************************************************************************)
(* File names (sequences of characters) and the patterns matched on them   *)
(***************************************************************************)
\* the letters of [a-z] and [A-Z] that the file names of the model carry
PathLower == LowerLetters \cup {"t", "s"}
PathUpper == UpperLetters \cup {"T", "S"}

\* the extensions matched by '.[tT][sS]'
CatalogueExtensions == {<<".", x, y>> : x \in {"t", "T"}, y \in {"s", "S"}}

EndsWith(s, e) == Len(e) <= Len(s) /\ SubSeq(s, Len(s) - Len(e) + 1, Len(s)) = e

has_catalogue_extension(name) == \E e \in CatalogueExtensions : EndsWith(name, e)

\* -[a-z]{2}(_[A-Z]{2})?  (line 427)
IsLanguageSuffix(s) ==
    \/ /\ Len(s) = 3
       /\ s[1] = "-" /\ s[2] \in PathLower /\ s[3] \in PathLower
    \/ /\ Len(s) = 6
       /\ s[1] = "-" /\ s[2] \in PathLower /\ s[3] \in PathLower
       /\ s[4] = "_" /\ s[5] \in PathUpper /\ s[6] \in PathUpper

(***************************************************************************)
(* Merger._detect_base_catalogue (src/merge-translations.py:411-448)       *)
(***************************************************************************)
\* glob.iglob(target / '*.ts'): the names with the lower-case extension
glob_ts(dir) == {n \in dir : Len(n) > 3 /\ EndsWith(n, <<".", "t", "s">>)}

\* os.path.commonprefix
commonprefix(names) ==
    IF names = {} THEN <<>>
    ELSE LET one == CHOOSE n \in names : TRUE
             common == {k \in 0..Len(one) :
                          \A n \in names : Len(n) >= k /\ SubSeq(n, 1, k) = SubSeq(one, 1, k)}
         IN SubSeq(one, 1, CHOOSE k \in common : \A j \in common : j <= k)

\* group 'base' of ^(?P<base>.+?)(-[a-z]{2}(_[A-Z]{2})?)?\.[tT][sS]$ : the
\* shortest non-empty base the rest of the pattern matches after; <<>> for
\* no match
base_of(name) ==
    LET stem == Len(name) - 3
        bases == {k \in 1..stem :
                    /\ has_catalogue_extension(name)
                    /\ (k = stem \/ IsLanguageSuffix(SubSeq(name, k + 1, stem)))}
    IN IF bases = {} THEN <<>>
       ELSE SubSeq(name, 1, CHOOSE k \in bases : \A j \in bases : k <= j)

\* mutant: the prefix is taken over every file of the directory
expected_base_of_all(dir, arg) ==
    IF arg = <<>> THEN commonprefix(dir)
    ELSE IF arg \in dir THEN base_of(arg)
    ELSE <<>>

\* lines 418-432: the candidate base name, <<>> for None or ''
expected_base(dir, arg) ==
    IF arg = <<>> THEN commonprefix(glob_ts(dir))
    ELSE IF arg \in dir THEN base_of(arg)
    ELSE <<>>

\* line 436: glob.iglob(expected_dir / expected + '.[tT][sS]'); iglob lists
\* the hits in directory order, so each of them can be the first one
found_base(dir, expected) ==
    IF expected = <<>> THEN {}
    ELSE {n \in dir : \E e \in CatalogueExtensions : n = expected \o e}

\* the directories of the detection scenario are the subsets of these names
aTs == <<"a", ".", "t", "s">>
aUpperTs == <<"a", ".", "T", "S">>
abTs == <<"a", "b", ".", "t", "s">>
a_aa == <<"a", "-", "a", "a", ".", "t", "s">>
a_bb == <<"a", "-", "b", "b", ".", "t", "s">>
a_aa_BB == <<"a", "-", "a", "a", "_", "B", "B", ".", "t", "s">>
b_aa_Upper == <<"b", "-", "a", "a", ".", "T", "S">>

DetectNames == {aTs, aUpperTs, abTs, a_aa, a_bb, a_aa_BB, b_aa_Upper}

InitDetect ==
    /\ pc = "construct"
    /\ target_dir \in SUBSET DetectNames
    /\ target_arg \in {<<>>} \cup target_dir
    /\ base_catalogue = <<>>
    /\ error = ""
    /\ overwrite = FALSE
    /\ PipelineIdle
    /\ PickIdle
    /\ LangIdle
    /\ StringIdle
    /\ RunIdle

\* Merger.__init__ lines 388-389 with args.auto_base_catalogue set: the
\* base catalogue is found and run() goes on to _collect
DetectFound ==
    /\ pc = "construct"
    /\ \E found \in found_base(target_dir, expected_base(target_dir, target_arg)) :
          base_catalogue' = found
    /\ pc' = "collect"
    /\ UNCHANGED <<reportVars, target_dir, target_arg, error, argVars, diskVars, mergerVars,
                   pickVars, langVars, stringVars, runVars>>

\* lines 440-446: FileNotFoundError leaves __init__ and run()
DetectFailed ==
    /\ pc = "construct"
    /\ found_base(target_dir, expected_base(target_dir, target_arg)) = {}
    /\ error' = "FileNotFoundError"
    /\ pc' = "failed"
    /\ UNCHANGED <<reportVars, target_dir, target_arg, base_catalogue, argVars, diskVars,
                   mergerVars, pickVars, langVars, stringVars, runVars>>

NextDetect == DetectFound \/ DetectFailed

SpecDetect == InitDetect /\ [][NextDetect]_vars

(***************************************************************************)
(* Claims about the detection of the base catalogue (under SpecDetect)     *)
(***************************************************************************)
Detected == pc \in {"collect", "failed"}

\* the catalogue files of a directory, as TsDirectory.from_disk lists them
\* (line 294: '*.[tT][sS]')
CatalogueNames(dir) == {n \in dir : Len(n) > 3 /\ has_catalogue_extension(n)}

\* the files of the directory named `prefix` plus a catalogue extension
BaseFiles(dir, prefix) ==
    {n \in dir : prefix # <<>> /\ \E e \in CatalogueExtensions : n = prefix \o e}

IsCommonPrefix(p, names) ==
    \A n \in names : Len(p) <= Len(n) /\ SubSeq(n, 1, Len(p)) = p

\* the prefixes of a name of `names` that all names share and that no
\* longer shared prefix extends
LongestCommonPrefixes(names) ==
    {p \in UNION {{SubSeq(n, 1, k) : k \in 0..Len(n)} : n \in names} :
        /\ IsCommonPrefix(p, names)
        /\ \A n \in names : \A k \in (Len(p) + 1)..Len(n) :
              ~IsCommonPrefix(SubSeq(n, 1, k), names)}

\* the files a detection over `names` may return
DetectableBases(names) ==
    UNION {BaseFiles(target_dir, p) : p \in LongestCommonPrefixes(names)}

DetectOutcome(names) ==
    IF DetectableBases(names) # {}
    THEN pc = "collect" /\ error = "" /\ base_catalogue \in DetectableBases(names)
    ELSE pc = "failed" /\ error = "FileNotFoundError" /\ base_catalogue = <<>>

\* C12 (as stated): on a target directory the base name is the longest common
\* prefix of the names of the catalogue files in it; the file of that name
\* with a catalogue extension is returned, and when there is none the run
\* fails with a not-found error before any merge work.
C12_PrefixOfCatalogueFiles ==
    (Detected /\ target_arg = <<>>) =>
        DetectOutcome(CatalogueNames(target_dir))

\* C12 (amended): the prefix is taken over the files whose name ends in the
\* lower-case extension '.ts' only.
C12_PrefixOfLowerCaseTsFiles ==
    (Detected /\ target_arg = <<>>) =>
        DetectOutcome({n \in target_dir : EndsWith(n, <<".", "t", "s">>)})

\* a.ts, a-aa.ts, a-bb.ts yields a.ts
C12_Witness ==
    /\ pc = "collect" /\ target_arg = <<>>
    /\ target_dir = {aTs, a_aa, a_bb}
    /\ base_catalogue = aTs

\* a directory whose lower-case catalogues share a prefix no file is named by
C12_WitnessFailed ==
    /\ pc = "failed" /\ target_arg = <<>>
    /\ target_dir = {a_aa, a_bb}

(***************************************************************************)
(* TsFile.from_disk (src/merge-translations.py:211-259): the language of   *)
(* a catalogue.  getattr(elem, 'language', '') of line 245 looks up a      *)
(* child tag of the root element, which a catalogue does not have, so the  *)
(* language is taken from the path.                                        *)
(***************************************************************************)
\* group 'lang_str' of ^.*?-(?P<lang_str>([a-z]{2})([-_][A-Z]{2})?)\.[tT][sS]$
\* (line 249), <<>> for no match
path_lang_str(name) ==
    LET n == Len(name)
    IN IF /\ n >= 9 /\ has_catalogue_extension(name)
          /\ name[n - 8] = "-"
          /\ name[n - 7] \in PathLower /\ name[n - 6] \in PathLower
          /\ name[n - 5] \in Separators
          /\ name[n - 4] \in PathUpper /\ name[n - 3] \in PathUpper
       THEN SubSeq(name, n - 7, n - 3)
       ELSE IF /\ n >= 6 /\ has_catalogue_extension(name)
               /\ name[n - 5] = "-"
               /\ name[n - 4] \in PathLower /\ name[n - 3] \in PathLower
       THEN SubSeq(name, n - 4, n - 3)
       ELSE <<>>

\* the directories of the command line
TargetDir == "target"
OutputDir == "out"

\* what the catalogue files on disk hold: "Hi", untranslated in the target
\* directory and in the base catalogue, translated in the sources
file_strings(dir, name) ==
    [k \in {"Hi"} |->
        <<RunOccurrence(<<dir, name>>,
                        IF dir = TargetDir THEN <<"A", "", FALSE, "">>
                        ELSE <<"A", "", TRUE, "x">>)>>]

\* the exceptions raised in place of a returned object
LanguageMissingError == [error |-> "LanguageMissingError"]
DuplicateLanguageError == [error |-> "DuplicateLanguageError"]

\* the language attribute of the root element <TS> of the files on disk,
\* <<>> for a root without the attribute: the files b-* and d-* declare
\* "bb", the other files with a language in their name declare "aa", the
\* files without one declare none
root_language(dir, name) ==
    IF path_lang_str(name) = <<>> THEN <<>>
    ELSE IF name[1] \in {"b", "d"} THEN <<"b", "b">>
    ELSE <<"a", "a">>

\* line 245: getattr(elem, 'language', ''). An attribute of a Tag that is
\* not an attribute of the Python object is looked up as a child element
\* (Tag.__getattr__ is find()): the first element <language> below <TS>,
\* which a catalogue does not have, so the value is None whatever the
\* root declares
getattr_language(declared) == <<>>

\* a loaded catalogue: path = <<directory, file name>>; `declared` is the
\* language attribute of the root element of the parsed tree
from_disk(dir, name, require_language) ==
    LET declared == root_language(dir, name)
        lang_str == IF getattr_language(declared) # <<>>
                    THEN getattr_language(declared)
                    ELSE path_lang_str(name)
    IN IF lang_str # <<>>
       THEN [path |-> <<dir, name>>, strings |-> file_strings(dir, name),
             language |-> from_str(lang_str), declared |-> declared]
       ELSE IF require_language THEN LanguageMissingError
       ELSE [path |-> <<dir, name>>, strings |-> file_strings(dir, name),
             language |-> EmptyLanguage, declared |-> declared]

(***************************************************************************)
(* TsDirectory (src/merge-translations.py:268-335)                         *)
(***************************************************************************)
TsDirectory(dir, files) == [directory |-> dir, files |-> files]

\* mutant: no language is ever found registered
has_language_never(files, l) == FALSE

\* the catalogue of a language in a files dict (kept in insertion order)
has_language(files, l) == \E i \in 1..Len(files) : files[i].language = l

\* lines 294-308, from the k-th file of the listing on
RECURSIVE load_files(_, _, _, _, _)
load_files(dir, listing, ignore, files, k) ==
    IF k > Len(listing) THEN TsDirectory(dir, files)
    ELSE IF listing[k] \in ignore
         THEN load_files(dir, listing, ignore, files, k + 1)
    ELSE LET ts == from_disk(dir, listing[k], TRUE)
         IN IF ts = LanguageMissingError
            THEN load_files(dir, listing, ignore, files, k + 1)
            ELSE IF has_language(files, ts.language) THEN DuplicateLanguageError
            ELSE load_files(dir, listing, ignore, Append(files, ts), k + 1)

\* lines 283-288 and 312-335 with require_language=True
from_single_file(dir, name) ==
    LET ts == from_disk(dir, name, TRUE)
    IN IF ts = LanguageMissingError THEN TsDirectory(<<dir, name>>, <<>>)
       ELSE TsDirectory(dir, <<ts>>)

\* the order in which iglob lists the files of a directory: the order of
\* the file system, here the order of this sequence
b_aa == <<"b", "-", "a", "a", ".", "t", "s">>
c_aa == <<"c", "-", "a", "a", ".", "t", "s">>
c_bb == <<"c", "-", "b", "b", ".", "t", "s">>
c_aa_BB == <<"c", "-", "a", "a", "-", "B", "B", ".", "T", "S">>
d_aa == <<"d", "-", "a", "a", ".", "t", "s">>
aTxt == <<"a", ".", "t", "x", "t">>

DirectoryOrder == <<aTs, a_aa, a_bb, a_aa_BB, b_aa, c_aa, c_bb, c_aa_BB, d_aa>>

Listing(names) == SelectSeq(DirectoryOrder, LAMBDA n : n \in names)

\* a path named on the command line: a directory with its files, or one
\* file (file # <<>>) of that directory
PathArg(dir, names, file) == [dir |-> dir, names |-> names, file |-> file]

\* TsDirectory.from_disk(path, allow_single_file=True, ignore) for a path
\* that exists
directory_from_disk(arg, ignore) ==
    IF arg.file # <<>> THEN from_single_file(arg.dir, arg.file)
    ELSE load_files(arg.dir, Listing(arg.names), ignore, <<>>, 1)

(***************************************************************************)
(* Merger.__init__ (src/merge-translations.py:339-399)                     *)
(***************************************************************************)
\* mutant: only an existing output directory is a conflict
output_conflict_existing_only(out, frc) == out = "exists" /\ ~frc

\* lines 365-371: the conditions that raise FileExistsError
output_conflict(out, frc) ==
    \/ (out # "none" /\ out = "exists" /\ ~frc)
    \/ (out = "none" /\ ~frc)

\* lines 372-386: Merger.output, the directory the catalogues are saved to
output_path(out) == IF out # "none" THEN OutputDir ELSE TargetDir

(***************************************************************************)
(* Merger._collect (src/merge-translations.py:450-467)                     *)
(***************************************************************************)
\* lines 462-464, from the k-th source on
RECURSIVE collect_sources(_, _, _)
collect_sources(args, loaded, k) ==
    IF k > Len(args) THEN [sources |-> loaded, error |-> ""]
    ELSE LET d == directory_from_disk(args[k], {})
         IN IF d = DuplicateLanguageError
            THEN [sources |-> loaded, error |-> DuplicateLanguageError.error]
            ELSE collect_sources(args, Append(loaded, d), k + 1)

(***************************************************************************)
(* Merger._match (src/merge-translations.py:469-515)                       *)
(***************************************************************************)
\* for s in self.sources: for s_file in s.files.values()
RECURSIVE source_files(_)
source_files(sources) ==
    IF sources = <<>> THEN <<>>
    ELSE sources[1].files \o source_files(Tail(sources))

in_list(x, list) == \E i \in 1..Len(list) : list[i] = x

\* mutant: a source is paired when the target's language is a subset of its
matches_of_reversed(t, sfiles) ==
    SelectSeq(sfiles, LAMBDA f : is_subset_of(t.language, f.language))

\* lines 473-477: self.pairs[t] for one target catalogue
matches_of(t, sfiles) ==
    SelectSeq(sfiles, LAMBDA f : is_subset_of(f.language, t.language))

\* lines 472-486, from the k-th target catalogue on
RECURSIVE match_targets(_, _, _, _)
match_targets(tfiles, sfiles, acc, k) ==
    IF k > Len(tfiles) THEN acc
    ELSE LET t == tfiles[k]
             found == matches_of(t, sfiles)
         IN match_targets(tfiles, sfiles,
                [pairs |-> Append(acc.pairs, [key |-> t, matches |-> found]),
                 handled_files |-> acc.handled_files \o found,
                 no_match |-> IF found = <<>> THEN Append(acc.no_match, t)
                              ELSE acc.no_match],
                k + 1)

\* line 497: re.sub(r'\.[tT][sS]$', f'-{language}.ts', base_catalogue.name)
new_catalogue_name(name, l) ==
    IF has_catalogue_extension(name)
    THEN SubSeq(name, 1, Len(name) - 3) \o <<"-">> \o LanguageStr(l) \o <<".", "t", "s">>
    ELSE name

\* mutant: the language is appended to the whole name
new_catalogue_appending(out, base, strings, l) ==
    [path |-> <<out, base \o <<"-">> \o LanguageStr(l) \o <<".", "t", "s">> >>,
     strings |-> strings, language |-> l, declared |-> LanguageStr(l)]

\* lines 495-498
new_catalogue(out, base, strings, l) ==
    [path |-> <<out, new_catalogue_name(base, l)>>, strings |-> strings,
     language |-> l, declared |-> LanguageStr(l)]

\* line 501: self.pairs[key].append(s_file), pairs being a defaultdict
append_pair(prs, key, s_file) ==
    IF \E i \in 1..Len(prs) : prs[i].key = key
    THEN LET i == CHOOSE i \in 1..Len(prs) : prs[i].key = key
         IN [prs EXCEPT ![i].matches = Append(@, s_file)]
    ELSE Append(prs, [key |-> key, matches |-> <<s_file>>])

\* mutant: no source catalogue counts as handled
is_handled_never(s_file, handled) == FALSE

\* line 492: s_file not in self.handled_files
is_handled(s_file, handled) == in_list(s_file, handled)

\* lines 490-503, from the k-th source catalogue on; base = <<>> for no
\* base catalogue
RECURSIVE match_orphans(_, _, _, _, _, _, _)
match_orphans(sfiles, handled, base, base_strings, out, acc, k) ==
    IF k > Len(sfiles) THEN acc
    ELSE LET s_file == sfiles[k]
         IN IF is_handled(s_file, handled)
            THEN match_orphans(sfiles, handled, base, base_strings, out, acc, k + 1)
            ELSE IF ~is_empty(s_file.language) /\ base # <<>>
            THEN LET extra == IF has_language(acc.extra_catalogues, s_file.language)
                              THEN acc.extra_catalogues
                              ELSE Append(acc.extra_catalogues,
                                          new_catalogue(out, base, base_strings,
                                                        s_file.language))
                     new_file == extra[CHOOSE i \in 1..Len(extra) :
                                           extra[i].language = s_file.language]
                 IN match_orphans(sfiles, handled, base, base_strings, out,
                        [acc EXCEPT !.extra_catalogues = extra,
                                    !.pairs = append_pair(@, new_file, s_file)],
                        k + 1)
            ELSE match_orphans(sfiles, handled, base, base_strings, out,
                        [acc EXCEPT !.not_handled = Append(@, s_file)], k + 1)

\* _match for a loaded target collection
match(tfiles, sources, base, base_strings, out) ==
    LET sfiles == source_files(sources)
        first == match_targets(tfiles, sfiles,
                               [pairs |-> <<>>, handled_files |-> <<>>,
                                no_match |-> <<>>], 1)
    IN match_orphans(sfiles, first.handled_files, base, base_strings, out,
                     [pairs |-> first.pairs, no_match |-> first.no_match,
                      not_handled |-> <<>>, extra_catalogues |-> <<>>], 1)

(***************************************************************************)
(* Merger._merge without the interactive part, over all pairs              *)
(* (src/merge-translations.py:622-649), and Merger._save (766-771)         *)
(***************************************************************************)
\* lines 632-638: the outcome r of one _do_merge_pair is added to the
\* totals of the target
add_pair_outcome(acc, r) ==
    [target |-> r.target,
     total_changes |-> acc.total_changes + r.changes,
     total_ambiguous |-> acc.total_ambiguous + Len(r.alternatives),
     alternatives |-> add_pair_alternatives(acc.alternatives, r.alternatives, 1)]

\* lines 630-640 for one target, from its j-th source on
RECURSIVE merge_sources(_, _, _, _)
merge_sources(found, self_overwrite, acc, j) ==
    IF j > Len(found) THEN acc
    ELSE merge_sources(found, self_overwrite,
                       add_pair_outcome(acc, do_merge_pair(found[j], acc.target,
                                                           self_overwrite)),
                       j + 1)

\* lines 642-644: the totals r of the i-th target are added to the overall
\* counts
add_target_outcome(acc, i, r) ==
    [pairs |-> [acc.pairs EXCEPT ![i].key = r.target],
     overall_changes |-> acc.overall_changes + r.total_changes,
     overall_alternatives_count |-> acc.overall_alternatives_count + r.total_ambiguous,
     overall_alternatives |->
         IF r.alternatives = <<>> THEN acc.overall_alternatives
         ELSE Append(acc.overall_alternatives,
                     [target |-> r.target.path, strings |-> r.alternatives])]

\* lines 625-644, from the i-th pair on
RECURSIVE merge_pairs(_, _, _)
merge_pairs(self_overwrite, acc, i) ==
    IF i > Len(acc.pairs) THEN acc
    ELSE merge_pairs(self_overwrite,
                     add_target_outcome(acc, i,
                         merge_sources(acc.pairs[i].matches, self_overwrite,
                                       [target |-> acc.pairs[i].key, total_changes |-> 0,
                                        total_ambiguous |-> 0, alternatives |-> <<>>], 1)),
                     i + 1)

\* line 770-771 for one target: the file of that name in the output
\* directory is created or replaced
write_file(disk, file) ==
    IF \E i \in 1..Len(disk) : disk[i].name = file.path[2]
    THEN LET i == CHOOSE i \in 1..Len(disk) : disk[i].name = file.path[2]
         IN [disk EXCEPT ![i].file = file]
    ELSE Append(disk, [name |-> file.path[2], file |-> file])

RECURSIVE save(_, _, _)
save(prs, disk, i) ==
    IF i > Len(prs) THEN disk
    ELSE save(prs, write_file(disk, prs[i].key), i + 1)

(***************************************************************************)
(* Merger.run (src/merge-translations.py:401-409) on the command line      *)
(* arguments, without the interactive mode                                 *)
(***************************************************************************)
TargetNames == {aTs, a_aa, a_aa_BB, b_aa}

BaseNames == {aTs, aUpperTs, aTxt}

\* the sources one argument can name
SourceArgs(dir) ==
    {PathArg(dir, names, <<>>) :
        names \in {{c_aa}, {c_aa, c_aa_BB}, {c_aa, d_aa}}}
    \cup {PathArg(dir, {c_aa_BB, c_bb}, file) : file \in {c_aa_BB, c_bb}}

RECURSIVE SourceArgListsOf(_)
SourceArgListsOf(n) ==
    IF n = 0 THEN {<<>>}
    ELSE {Append(l, a) : l \in SourceArgListsOf(n - 1), a \in SourceArgs(SourcePaths[n])}

SourceArgLists(most) == UNION {SourceArgListsOf(n) : n \in 1..most}

target_path_arg == PathArg(TargetDir, target_dir, target_arg)

InitPipeline ==
    /\ pc = "construct"
    /\ force \in BOOLEAN
    /\ output \in {"none", "new", "exists"}
    /\ overwrite = FALSE
    /\ base_catalogue \in {<<>>} \cup BaseNames
    /\ target_dir \in SUBSET TargetNames
    /\ target_arg \in {<<>>} \cup target_dir
    /\ source_args \in SourceArgLists(MaxSources)
    /\ interactive = FALSE
    /\ output_dir = IF output = "exists" THEN "present" ELSE "absent"
    /\ written = <<>>
    /\ error = ""
    /\ collected_target = None
    /\ collected_sources = <<>>
    /\ pairs = <<>>
    /\ no_match = <<>>
    /\ not_handled = <<>>
    /\ new_catalogues = <<>>
    /\ PickIdle
    /\ LangIdle
    /\ StringIdle
    /\ RunIdle

\* Merger.__init__ with args.auto_base_catalogue unset and an existing base
\* catalogue file
Construct ==
    /\ pc = "construct"
    /\ IF output_conflict(output, force)
       THEN /\ error' = "FileExistsError"
            /\ pc' = "failed"
            /\ UNCHANGED output_dir
       ELSE /\ output_dir' = IF output # "none" THEN "present" ELSE output_dir
            /\ pc' = "collect"
            /\ UNCHANGED error
    /\ UNCHANGED <<reportVars, target_dir, target_arg, base_catalogue, argVars, written,
                   mergerVars, pickVars, langVars, stringVars, runVars>>

\* Merger._collect: a DuplicateLanguageError of the target is caught and
\* reported (lines 458-460) with Merger.target left as None, one of a
\* source leaves _collect and run()
Collect ==
    /\ pc = "collect"
    /\ LET t == directory_from_disk(target_path_arg, {base_catalogue})
           srcs == collect_sources(source_args, <<>>, 1)
       IN /\ collected_target' = IF t = DuplicateLanguageError THEN None ELSE t
          /\ collected_sources' = srcs.sources
          /\ error' = srcs.error
          /\ pc' = IF srcs.error = "" THEN "match" ELSE "failed"
    /\ UNCHANGED <<reportVars, target_dir, target_arg, base_catalogue, argVars, diskVars,
                   pairs, no_match, not_handled, new_catalogues,
                   pickVars, langVars, stringVars, runVars>>

\* Merger._match: self.target.files of line 472 raises AttributeError when
\* Merger.target is None
Match ==
    /\ pc = "match"
    /\ IF collected_target = None
       THEN /\ error' = "AttributeError"
            /\ pc' = "failed"
            /\ UNCHANGED <<reportVars, pairs, no_match, not_handled, new_catalogues>>
       ELSE LET r == match(collected_target.files, collected_sources, base_catalogue,
                           file_strings(TargetDir, base_catalogue),
                           output_path(output))
            IN /\ pairs' = r.pairs
               /\ no_match' = r.no_match
               /\ not_handled' = r.not_handled
               /\ new_catalogues' = r.extra_catalogues
               /\ pc' = "merge"
               /\ UNCHANGED error
    /\ UNCHANGED <<reportVars, target_dir, target_arg, base_catalogue, argVars, diskVars,
                   collected_target, collected_sources, pickVars, langVars, stringVars, runVars>>

\* Merger._merge with args.interactive unset
merged_pairs ==
    merge_pairs(overwrite,
                [pairs |-> pairs, overall_changes |-> overall_changes,
                 overall_alternatives_count |-> overall_alternatives_count,
                 overall_alternatives |-> overall_alternatives], 1)

Merge ==
    /\ pc = "merge"
    /\ pairs' = merged_pairs.pairs
    /\ overall_changes' = merged_pairs.overall_changes
    /\ overall_alternatives_count' = merged_pairs.overall_alternatives_count
    /\ overall_alternatives' = merged_pairs.overall_alternatives
    /\ pc' = "save"
    /\ UNCHANGED <<reportVars, detectVars, argVars, diskVars, collected_target, collected_sources,
                   no_match, not_handled, new_catalogues, pickVars, langVars,
                   stringVars, target_file, target_loaded, matches, merged, total_changes,
                   total_ambiguous, reverse_file>>

\* Merger._save
Save ==
    /\ pc = "save"
    /\ written' = save(pairs, written, 1)
    /\ pc' = "report"
    /\ UNCHANGED <<reportVars, detectVars, argVars, output_dir, mergerVars,
                   pickVars, langVars, stringVars, runVars>>

\* Merger._report prints the summary; run() returns
Report ==
    /\ pc = "report"
    /\ pc' = "done"
    /\ UNCHANGED <<reportVars, detectVars, argVars, diskVars, mergerVars,
                   pickVars, langVars, stringVars, runVars>>

NextPipeline == Construct \/ Collect \/ Match \/ Merge \/ Save \/ Report

SpecPipeline == InitPipeline /\ [][NextPipeline]_vars

(***************************************************************************)
(* Merger._merge, the interactive part (src/merge-translations.py:651-764) *)
(* for one target catalogue: overall_alternatives holds the dict of that   *)
(* one group, the picker's answer is an input of the step.                 *)
(***************************************************************************)
\* line 666: sorted(all_alts.keys()) of the source texts of the catalogues
KeyOrder == <<"Bye", "Hi">>

has_alternatives(all_alts, key) ==
    \E e \in 1..Len(all_alts) : all_alts[e].key = key

\* all_alts[key]
alternatives_of(all_alts, key) ==
    all_alts[CHOOSE e \in 1..Len(all_alts) : all_alts[e].key = key].alts

\* the loop of line 666 goes on with the first key at or after position p
RECURSIVE next_key(_, _)
next_key(p, all_alts) ==
    IF p > Len(KeyOrder) THEN p
    ELSE IF has_alternatives(all_alts, KeyOrder[p]) THEN p
    ELSE next_key(p + 1, all_alts)

\* lines 690, 697: by_origin[target] = current, by_origin[a.origin] = a
in_by_origin(target, cands, origin) ==
    origin = target \/ \E a \in 1..Len(cands) : cands[a].origin = origin

by_origin(target, current, cands, origin) ==
    IF \E a \in 1..Len(cands) : cands[a].origin = origin
    THEN LET a == CHOOSE a \in 1..Len(cands) :
                    /\ cands[a].origin = origin
                    /\ \A b \in a + 1..Len(cands) : cands[b].origin # origin
         IN cands[a]
    ELSE current

\* the origins of the candidates in the order of their first candidate:
\* lines 698-705 add one 'always prefer' entry for each
RECURSIVE origins_of(_, _, _)
origins_of(cands, acc, k) ==
    IF k > Len(cands) THEN acc
    ELSE origins_of(cands,
                    IF in_list(cands[k].origin, acc) THEN acc
                    ELSE Append(acc, cands[k].origin),
                    k + 1)

\* the entries of the menu (line 707) that can be selected: text 0 is the
\* current text, text a the candidate a, prefer 0 'always prefer current',
\* prefer o 'always prefer' the origin o of origins_of
MenuEntries(cands) ==
    {[kind |-> "text", n |-> n] : n \in 0..Len(cands)}
    \cup {[kind |-> "prefer", n |-> n] : n \in 0..Len(origins_of(cands, <<>>, 1))}

\* line 754: options[options_keys[menu_entry_index]]. Line 685 maps 'always
\* prefer current' to the Path target; line 702 maps the entry of an origin
\* to i, which the first pass of the loop of line 700 binds to the first
\* candidate, and line 705 then puts the entry's key into status_
selects_path(entry) == entry.kind = "prefer" /\ entry.n = 0

selected_of(entry, target, current, cands) ==
    IF entry.kind = "text"
    THEN (IF entry.n = 0 THEN current ELSE cands[entry.n])
    ELSE IF entry.n = 0 THEN by_origin(target, current, cands, target)
    ELSE cands[1]

\* the occurrence of the target catalogue that is the dict key current
place_of(file, key, current) ==
    CHOOSE i \in 1..Len(file.strings[key]) :
        /\ file.strings[key][i] = current
        /\ \A j \in 1..i - 1 : file.strings[key][j] # current

RECURSIVE without_key(_, _, _)
without_key(all_alts, key, e) ==
    IF e > Len(all_alts) THEN <<>>
    ELSE (IF all_alts[e].key = key THEN <<>> ELSE <<all_alts[e]>>)
         \o without_key(all_alts, key, e + 1)

\* lines 733-738, replace_translation: the key leaves the alternatives and
\* _do_merge_string runs on the one pair with overwrite=True
replace_translation(file, all_alts, key, current, new_translation, self_overwrite) ==
    LET r == do_merge_string(<<new_translation>>, <<current>>, "True", self_overwrite)
    IN [target |-> [file EXCEPT !.strings[key][place_of(file, key, current)] =
                                    r.targets[1]],
        alternatives |-> without_key(all_alts, key, 1)]

\* mutant: the catalogue is written when the user aborts
exit_after_saving(disk, file) ==
    Append(disk, [name |-> file.path, file |-> file])

\* lines 750-752: sys.exit(0) leaves _merge and run(), _save is not reached
exit_on_abort(disk, file) == disk

\* lines 769-771 for the one target catalogue
save_target(disk, file) ==
    Append(disk, [name |-> file.path, file |-> file])

\* lines 605-612: origins[text], the sorted set of the paths of the
\* candidates with that text
origins_with(cands, text) ==
    SelectSeq(SourcePaths,
              LAMBDA path : \E a \in 1..Len(cands) :
                                cands[a].origin = path /\ get_text(cands[a]) = text)

\* lines 614-618: the line of the current text and one line for each
\* candidate
report_lines(current, cands) ==
    <<[text |-> get_text(current),
       origins |-> <<"current">> \o origins_with(cands, get_text(current))]>>
    \o [a \in 1..Len(cands) |->
            [text |-> get_text(cands[a]),
             origins |-> origins_with(cands, get_text(cands[a]))]]

\* mutant: the first blocked occurrence is rendered whatever their number
report_key_first(entry) ==
    [key |-> entry.key, error |-> FALSE,
     lines |-> report_lines(entry.alts[1].key, entry.alts[1].alts)]

\* lines 596-618 for one source text
report_key(entry) ==
    IF Len(entry.alts) > 1
    THEN [key |-> entry.key, error |-> TRUE, lines |-> <<>>]
    ELSE [key |-> entry.key, error |-> FALSE,
          lines |-> report_lines(entry.alts[1].key, entry.alts[1].alts)]

\* Merger._report_alternatives: what is printed for the keys of one target
\* catalogue, from the k-th key of sorted(all_alts.keys()) on
RECURSIVE report_alternatives(_, _)
report_alternatives(all_alts, k) ==
    IF k > Len(KeyOrder) THEN <<>>
    ELSE (IF has_alternatives(all_alts, KeyOrder[k])
          THEN <<report_key([key |-> KeyOrder[k],
                             alts |-> alternatives_of(all_alts, KeyOrder[k])])>>
          ELSE <<>>)
         \o report_alternatives(all_alts, k + 1)

\* Merger._report, lines 778-802: the count of the summary ('no strings
\* updated' for 0), the section AMBIGUOUS STRINGS with its summary line
\* when overall_alternatives holds a group, and the alternatives of the
\* groups
report(updated, count, files, alts) ==
    [printed |-> TRUE,
     updated |-> updated,
     section |-> files > 0,
     ambiguous |-> IF files > 0 THEN count ELSE 0,
     files |-> files,
     alternatives |-> alts]

\* <<context, comment, finished, text>> of the occurrences of "Hi" in the
\* target: blocked, not blocked, two blocked ones that are two keys of the
\* alternatives, two blocked ones that are one key, a blocked one and one
\* that is not
PickTargetHi == {
    << <<"A", "", TRUE, "x">> >>,
    << <<"A", "", FALSE, "">> >>,
    << <<"A", "", TRUE, "x">>, <<"B", "", TRUE, "w">> >>,
    << <<"A", "", TRUE, "x">>, <<"B", "", TRUE, "x">> >>,
    << <<"A", "", TRUE, "x">>, <<"B", "", FALSE, "">> >> }

PickTargets ==
    {TsFile("t", [k \in {"Hi", "Bye"} |->
                    IF k = "Hi" THEN [i \in 1..Len(h) |-> RunOccurrence("t", h[i])]
                    ELSE <<ByeOccurrence("t", b[1], b[2])>>]) :
        h \in PickTargetHi, b \in {<<TRUE, "x">>, <<FALSE, "">>}}

\* a source lists "Hi", "Bye" or both, each once and finished
PickTexts == {"y", "z"}

PickSources(path) ==
    {TsFile(path, [k \in {"Hi"} |-> <<RunOccurrence(path, <<"A", "", TRUE, t>>)>>]) :
        t \in PickTexts}
    \cup {TsFile(path, [k \in {"Bye"} |-> <<ByeOccurrence(path, TRUE, t)>>]) :
        t \in PickTexts}
    \cup {WithBye(path, <<RunOccurrence(path, <<"A", "", TRUE, t>>)>>, TRUE, u) :
        t \in PickTexts, u \in PickTexts}

RECURSIVE PickSourceListsOf(_)
PickSourceListsOf(n) ==
    IF n = 0 THEN {<<>>}
    ELSE {Append(l, c) : l \in PickSourceListsOf(n - 1), c \in PickSources(SourcePaths[n])}

PickSourceLists(most) == UNION {PickSourceListsOf(n) : n \in 1..most}

InitInteractive ==
    /\ pc = "merge"
    /\ overwrite \in BOOLEAN
    /\ target_loaded \in PickTargets
    /\ target_file = target_loaded
    /\ matches \in PickSourceLists(MaxSources)
    /\ merged = 0
    /\ total_changes = 0
    /\ total_ambiguous = 0
    /\ overall_changes = 0
    /\ overall_alternatives_count = 0
    /\ overall_alternatives = <<>>
    /\ reverse_file = NoFile
    /\ force = FALSE
    /\ output = "none"
    /\ source_args = <<>>
    /\ interactive \in BOOLEAN
    /\ output_dir = "absent"
    /\ written = <<>>
    /\ collected_target = None
    /\ collected_sources = <<>>
    /\ pairs = <<>>
    /\ no_match = <<>>
    /\ not_handled = <<>>
    /\ new_catalogues = <<>>
    /\ DetectIdle
    /\ PickIdle
    /\ LangIdle
    /\ StringIdle

\* line 651 without args.interactive: _merge returns
Batch ==
    /\ pc = "merged"
    /\ ~interactive
    /\ pc' = "save"
    /\ UNCHANGED <<langVars, stringVars, runVars, stageVars>>

\* lines 651-664 with a group in overall_alternatives: the loop of line 666
\* starts with prefer_all = None
EnterGroup ==
    /\ pc = "merged"
    /\ interactive
    /\ overall_alternatives # <<>>
    /\ pc' = "pick"
    /\ position' = next_key(1, overall_alternatives)
    /\ prefer_all' = ""
    /\ UNCHANGED <<reportVars, resolved, detectVars, argVars, diskVars, mergerVars,
                   langVars, stringVars, runVars>>

\* lines 651-652, 764 without any group: the loop of line 652 binds no
\* group and line 764 reads it
NoGroup ==
    /\ pc = "merged"
    /\ interactive
    /\ overall_alternatives = <<>>
    /\ pc' = "failed"
    /\ error' = "UnboundLocalError"
    /\ UNCHANGED <<reportVars, target_dir, target_arg, base_catalogue, argVars, diskVars,
                   mergerVars, pickVars, langVars, stringVars, runVars>>

\* the pass of the loop of line 666 that is due
AtKey == pc = "pick" /\ position <= Len(KeyOrder)

PickKey == KeyOrder[position]

PickAlts == alternatives_of(overall_alternatives, PickKey)

PickCurrent == PickAlts[1].key

PickCandidates == PickAlts[1].alts

Resolves == prefer_all # "" /\ in_by_origin(target_file.path, PickCandidates, prefer_all)

\* one entry of the history of the loop
Resolution(how, entry, new_translation) ==
    [key |-> PickKey, how |-> how, entry |-> entry, current |-> PickCurrent,
     candidates |-> PickCandidates, new |-> new_translation,
     prefer_all |-> prefer_all, before |-> target_file,
     pending |-> overall_alternatives,
     changes |-> IF how = "error" THEN 0
                 ELSE do_merge_string(<<new_translation>>, <<PickCurrent>>,
                                      "True", overwrite).changes]

Replace(how, entry, new_translation) ==
    LET r == replace_translation(target_file, overall_alternatives, PickKey,
                                 PickCurrent, new_translation, overwrite)
    IN /\ target_file' = r.target
       /\ overall_alternatives' = r.alternatives
       /\ position' = next_key(position + 1, r.alternatives)
       /\ resolved' = Append(resolved, Resolution(how, entry, new_translation))

\* lines 670-672: more than one target occurrence of the key is blocked
SkipAmbiguous ==
    /\ AtKey
    /\ Len(PickAlts) > 1
    /\ position' = next_key(position + 1, overall_alternatives)
    /\ resolved' = Append(resolved,
            Resolution("error", [kind |-> "none", n |-> 0], PickCurrent))
    /\ UNCHANGED <<reportVars, pc, prefer_all, detectVars, argVars, diskVars, mergerVars,
                   langVars, stringVars, runVars>>

\* lines 740-742: the remembered origin answers for the user
AutoResolve ==
    /\ AtKey
    /\ Len(PickAlts) = 1
    /\ Resolves
    /\ Replace("auto", [kind |-> "none", n |-> 0],
               by_origin(target_file.path, PickCurrent, PickCandidates, prefer_all))
    /\ UNCHANGED <<reportVars, pc, prefer_all, detectVars, argVars, diskVars, mergerVars,
                   langVars, stringVars, overwrite, target_loaded, matches,
                   merged, total_changes, total_ambiguous, overall_changes,
                   overall_alternatives_count, reverse_file>>

\* lines 744-761: the menu is shown and the user selects an entry
Pick ==
    /\ AtKey
    /\ Len(PickAlts) = 1
    /\ ~Resolves
    /\ \E entry \in MenuEntries(PickCandidates) :
          /\ Replace("picker", entry,
                     selected_of(entry, target_file.path, PickCurrent, PickCandidates))
          /\ prefer_all' = IF selects_path(entry) THEN target_file.path ELSE prefer_all
    /\ UNCHANGED <<reportVars, pc, detectVars, argVars, diskVars, mergerVars,
                   langVars, stringVars, overwrite, target_loaded, matches,
                   merged, total_changes, total_ambiguous, overall_changes,
                   overall_alternatives_count, reverse_file>>

\* lines 748-752: the menu is shown and the user cancels it
Abort ==
    /\ AtKey
    /\ Len(PickAlts) = 1
    /\ ~Resolves
    /\ written' = exit_on_abort(written, target_file)
    /\ pc' = "exited"
    /\ UNCHANGED <<reportVars, detectVars, argVars, output_dir, mergerVars, pickVars,
                   langVars, stringVars, runVars>>

\* line 764 after the loops: del self.overall_alternatives[group]
LeaveGroup ==
    /\ pc = "pick"
    /\ position > Len(KeyOrder)
    /\ overall_alternatives' = <<>>
    /\ pc' = "save"
    /\ UNCHANGED <<overwrite, target_file, target_loaded, matches, merged,
                   total_changes, total_ambiguous, overall_changes,
                   overall_alternatives_count, reverse_file, langVars,
                   stringVars, stageVars>>

\* Merger._save for the one target catalogue
SaveTarget ==
    /\ pc = "save"
    /\ written' = save_target(written, target_file)
    /\ pc' = "report"
    /\ UNCHANGED <<reportVars, detectVars, argVars, output_dir, mergerVars, pickVars,
                   langVars, stringVars, runVars>>

\* Merger._report prints the summary; run() returns
ReportTarget ==
    /\ pc = "report"
    /\ reported' = report(overall_changes, overall_alternatives_count,
                          IF overall_alternatives = <<>> THEN 0 ELSE 1,
                          report_alternatives(overall_alternatives, 1))
    /\ pc' = "done"
    /\ UNCHANGED <<groups, group, detectVars, argVars, diskVars, mergerVars,
                   pickVars, langVars, stringVars, runVars>>

NextInteractive ==
    \/ MergePair \/ MergeTotals
    \/ Batch \/ EnterGroup \/ NoGroup
    \/ SkipAmbiguous \/ AutoResolve \/ Pick \/ Abort
    \/ LeaveGroup \/ SaveTarget \/ ReportTarget

SpecInteractive == InitInteractive /\ [][NextInteractive]_vars


(***************************************************************************)
(* Claims about the interactive mode (checked under SpecInteractive)       *)
(***************************************************************************)
\* the user cancelled a menu and the run has halted
Aborted == pc = "exited"

\* the output directory holds the target catalogue as it is in memory
Persisted ==
    \E i \in 1..Len(written) :
        written[i].name = target_file.path /\ written[i].file = target_file

\* C16: when the user aborts the picker, every change merged so far is in
\* the output catalogues when the run halts.
C16_AbortPersists == Aborted => Persisted

\* C16 (amended): when the user aborts the picker the run halts without
\* writing any catalogue; the changes merged so far are not persisted.
C16_AbortWritesNothing == Aborted => written = <<>>

\* the batch changed the catalogue, an earlier selection changed it again,
\* and the user aborts at the next menu
C16_Witness ==
    /\ Aborted
    /\ total_changes > 0
    /\ Len(resolved) = 1
    /\ resolved[1].how = "picker"
    /\ resolved[1].before # target_file
    /\ target_file # target_loaded

\* C21: every run that got as far as merging, and in which the user does
\* not abort, goes on through merge, the interactive resolution when
\* requested, save and report, and reaches the end of report, in batch mode
\* and in interactive mode, with or without blocked strings.
\* (run() has ended: by returning, by the user's abort or by an exception)
Halted == pc \in {"done", "exited", "failed"}

C21_RunReachesReport == Halted => (pc = "done" \/ Aborted)

\* the passes of the loop at which the user selected 'always prefer' for
\* the origin of a source catalogue, and that origin
PreferredAt(i) ==
    /\ resolved[i].how = "picker"
    /\ resolved[i].entry.kind = "prefer"
    /\ resolved[i].entry.n >= 1

PreferredOrigin(i) == origins_of(resolved[i].candidates, <<>>, 1)[resolved[i].entry.n]

Proposed(j, origin) ==
    \E a \in 1..Len(resolved[j].candidates) : resolved[j].candidates[a].origin = origin

\* the pass j applied the candidate of the origin to its string
AppliedOf(j, origin) ==
    /\ resolved[j].new.origin = origin
    /\ Proposed(j, origin)

\* C18: after 'always prefer O' is selected for a source origin O at one
\* blocked string, O's candidate is applied to that string, every later
\* blocked string of the catalogue for which O proposed a candidate is
\* resolved with O's candidate without the menu, and for a later string
\* without a candidate of O the menu is shown.
C18_AlwaysPreferOrigin ==
    \A i \in 1..Len(resolved) :
        PreferredAt(i) =>
            /\ AppliedOf(i, PreferredOrigin(i))
            /\ \A j \in i + 1..Len(resolved) :
                  resolved[j].how # "error" =>
                      IF Proposed(j, PreferredOrigin(i))
                      THEN resolved[j].how = "auto" /\ AppliedOf(j, PreferredOrigin(i))
                      ELSE resolved[j].how = "picker"

\* the content of an occurrence: its translation and its finished state
ContentOf(o) == <<o.text, o.forms, o.finished>>

\* the step is a pass of the loop in which the user selected a text entry
TextSelected(entry) ==
    /\ AtKey
    /\ Len(PickAlts) = 1
    /\ ~Resolves
    /\ entry \in MenuEntries(PickCandidates)
    /\ entry.kind = "text"
    /\ resolved' = Append(resolved, Resolution("picker", entry,
                                               selected_of(entry, target_file.path,
                                                           PickCurrent, PickCandidates)))

\* every other occurrence of the catalogue is as it was
OthersKept(key, place) ==
    /\ DOMAIN target_file'.strings = DOMAIN target_file.strings
    /\ \A p \in Places(target_file) :
          p # <<key, place>> => At(target_file', p) = At(target_file, p)

\* C19: selecting a candidate's text for a blocked string gives the blocked
\* target occurrence the content of that candidate, whatever the overwrite
\* setting of the run, and removes the string from the pending alternatives
\* of the catalogue; selecting the current text leaves the catalogue's
\* content as it is and removes the string as well.
C19_TextSelectionForcesOverwrite ==
    [][\A entry \in [kind : {"text"}, n : 0..MaxSources] :
          TextSelected(entry) =>
              /\ ~has_alternatives(overall_alternatives', PickKey)
              /\ \A k \in {KeyOrder[q] : q \in 1..Len(KeyOrder)} \ {PickKey} :
                    has_alternatives(overall_alternatives', k)
                        = has_alternatives(overall_alternatives, k)
              /\ IF entry.n = 0 THEN target_file' = target_file
                 ELSE LET place == place_of(target_file, PickKey, PickCurrent)
                      IN /\ ContentOf(At(target_file', <<PickKey, place>>))
                              = ContentOf(PickCandidates[entry.n])
                         /\ OthersKept(PickKey, place)]_vars

\* the run does not overwrite; the user kept the current text of one string
\* and took a candidate's text for the next, which changed the catalogue
C19_Witness ==
    /\ ~overwrite
    /\ Len(resolved) = 2
    /\ resolved[1].how = "picker" /\ resolved[1].entry = [kind |-> "text", n |-> 0]
    /\ resolved[2].how = "picker" /\ resolved[2].entry.kind = "text"
    /\ resolved[2].entry.n >= 1
    /\ ~has_alternatives(overall_alternatives, resolved[2].key)
    /\ ContentOf(At(target_file, <<resolved[2].key, 1>>))
          = ContentOf(resolved[2].candidates[resolved[2].entry.n])
    /\ ContentOf(At(target_file, <<resolved[2].key, 1>>))
          # ContentOf(resolved[2].current)
    /\ \A p \in Places(target_file) :
          p[1] = resolved[1].key => At(target_file, p) = At(target_loaded, p)

\* the candidates applied by the selections of the passes 1..n of the loop
RECURSIVE SelectionsApplied(_)
SelectionsApplied(n) ==
    IF n = 0 THEN 0 ELSE SelectionsApplied(n - 1) + resolved[n].changes

\* C30: the count of updated strings in the summary is the number of times
\* a candidate was applied to a target occurrence in the run, by the batch
\* merge and by the selections of the interactive mode.
C30_SummaryCountsApplications ==
    pc = "done" =>
        reported.updated = total_changes + SelectionsApplied(Len(resolved))

\* the report of the run has been printed
Reported == pc = "done" /\ reported.printed

\* the lines printed for the candidates of a blocked string (the first
\* line is that of the current text)
CandidateLines(r) == {i \in 1..Len(r.lines) : i >= 2}

\* the origins of the candidates of a blocked string that have the text
OriginsOf(key, text) ==
    LET cands == alternatives_of(overall_alternatives, key)[1].alts
    IN {cands[a].origin : a \in {b \in 1..Len(cands) : get_text(cands[b]) = text}}

\* C25: in the report of a blocked string every candidate text is listed
\* once, with the duplicate-free set of the origins of the candidates that
\* have that text.
C25_CandidateTextsListedOnce ==
    Reported =>
        \A k \in 1..Len(reported.alternatives) :
            LET r == reported.alternatives[k]
            IN ~r.error =>
                /\ \A i, j \in CandidateLines(r) :
                      i # j => r.lines[i].text # r.lines[j].text
                /\ \A i \in CandidateLines(r) :
                      /\ {r.lines[i].origins[o] : o \in 1..Len(r.lines[i].origins)}
                            = OriginsOf(r.key, r.lines[i].text)
                      /\ Len(r.lines[i].origins)
                            = Cardinality(OriginsOf(r.key, r.lines[i].text))

\* the blocked occurrences of a source text that have alternatives
BlockedEntries(all_alts, key) ==
    IF has_alternatives(all_alts, key) THEN Len(alternatives_of(all_alts, key)) ELSE 0

\* what the report printed for a source text
Rendering(key) ==
    reported.alternatives[CHOOSE k \in 1..Len(reported.alternatives) :
                              reported.alternatives[k].key = key]

KeptPerOccurrence ==
    \A e \in 1..Len(overall_alternatives) :
        LET entries == overall_alternatives[e].alts
        IN /\ \A d \in 1..Len(entries) :
                \E p \in Places(target_file) :
                    /\ p[1] = overall_alternatives[e].key
                    /\ At(target_file, p) = entries[d].key
                    /\ Translated(entries[d].key)
           /\ \A c, d \in 1..Len(entries) :
                c # d => ~same_key(entries[c].key, entries[d].key)

\* the pass i of the loop left the catalogue and the pending alternatives
\* as they were
PassChangedNothing(i) ==
    IF i < Len(resolved)
    THEN /\ resolved[i + 1].before = resolved[i].before
         /\ resolved[i + 1].pending = resolved[i].pending
    ELSE /\ target_file = resolved[i].before
         /\ pc = "pick" => overall_alternatives = resolved[i].pending

C24_WitnessInteractive ==
    /\ pc = "done" /\ interactive
    /\ \E i \in 1..Len(resolved) :
          resolved[i].how = "error" /\ resolved[i].key = "Hi"

(***************************************************************************)
(* Claims about Merger.run (checked under SpecPipeline)                    *)
(***************************************************************************)
\* the language TsFile.from_disk gives the file of a name, EmptyLanguage
\* for a file it gives none
LanguageOfName(name) ==
    IF path_lang_str(name) = <<>> THEN EmptyLanguage ELSE from_str(path_lang_str(name))

\* a directory argument that holds two files of one language
HasDuplicateLanguage(arg, ignore) ==
    /\ arg.file = <<>>
    /\ \E n, m \in arg.names \ ignore :
          /\ n # m
          /\ ~is_empty(LanguageOfName(n))
          /\ LanguageOfName(n) = LanguageOfName(m)

SourceHasDuplicate ==
    \E k \in 1..Len(source_args) : HasDuplicateLanguage(source_args[k], {})

TargetHasDuplicate == HasDuplicateLanguage(target_path_arg, {base_catalogue})

Constructed == pc \notin {"construct"} /\ error # "FileExistsError"

Collected == Constructed /\ pc # "collect"

\* the state _match leaves
Matched == pc = "merge"

\* the collections loaded so far
LoadedCollections ==
    {collected_sources[k] : k \in 1..Len(collected_sources)}
    \cup (IF collected_target = None THEN {} ELSE {collected_target})

DistinctLanguages(files) ==
    \A i, j \in 1..Len(files) : i # j => files[i].language # files[j].language

\* the catalogues loaded from disk so far
LoadedFiles ==
    UNION {{c.files[i] : i \in 1..Len(c.files)} : c \in LoadedCollections}

\* C23: a loaded catalogue has the language its root element declares, and
\* the language of the suffix of its file name only when the root declares
\* none.
C23_DeclaredLanguageFirst ==
    \A f \in LoadedFiles :
        f.language = IF f.declared # <<>> THEN from_str(f.declared)
                     ELSE LanguageOfName(f.path[2])

\* C17: if force is not set and the output directory exists or none is
\* given, the construction fails with FileExistsError, nothing has been
\* collected and nothing has been created or written.
C17_OutputConflictBeforeCollect ==
    (pc # "construct" /\ ~force /\ output \in {"none", "exists"}) =>
        /\ pc = "failed" /\ error = "FileExistsError"
        /\ collected_target = None /\ collected_sources = <<>> /\ pairs = <<>>
        /\ written = <<>>
        /\ output_dir = IF output = "exists" THEN "present" ELSE "absent"

C17_Witness ==
    /\ pc = "failed" /\ error = "FileExistsError"
    /\ ~force /\ output = "none"
    /\ source_args # <<>>

\* C14: a loaded collection holds no two catalogues of one language; a
\* directory with two files of one language is not loaded at all, and for
\* a source the DuplicateLanguageError ends the run before _match: nothing
\* is paired, merged or written.
C14_NoDuplicateLanguage ==
    /\ \A c \in LoadedCollections : DistinctLanguages(c.files)
    /\ (Collected /\ TargetHasDuplicate) => collected_target = None
    /\ (Collected /\ SourceHasDuplicate) =>
          /\ pc = "failed" /\ error = "DuplicateLanguageError"
          /\ \A k \in 1..Len(collected_sources) :
                ~HasDuplicateLanguage(source_args[k], {})
          /\ pairs = <<>> /\ overall_changes = 0 /\ written = <<>>

C14_Witness ==
    /\ pc = "failed" /\ error = "DuplicateLanguageError"
    /\ Len(source_args) = 2
    /\ ~HasDuplicateLanguage(source_args[1], {})
    /\ HasDuplicateLanguage(source_args[2], {})
    /\ Len(collected_sources) = 1

\* C15: two catalogues of one language in the target directory are a
\* warning; the run goes on through match, merge, save and report, so it
\* does not fail unless the construction or a source collection does.
C15_DuplicateTargetContinues ==
    (TargetHasDuplicate /\ ~output_conflict(output, force) /\ ~SourceHasDuplicate)
        => pc # "failed"

\* the positions <<collection, file>> of the source catalogues
SourcePositions ==
    {<<k, i>> \in (1..Len(collected_sources)) \X (1..Cardinality(DOMAIN DirectoryOrder)) :
        i <= Len(collected_sources[k].files)}

SourceAt(p) == collected_sources[p[1]].files[p[2]]

PairsOf(t) == {i \in 1..Len(pairs) : pairs[i].key = t}

Occurrences(f, list) == Cardinality({i \in 1..Len(list) : list[i] = f})

\* C13: after _match every target catalogue t is a key of pairs once, the
\* list paired with it holds exactly the source catalogues, of all source
\* collections, whose language is a subset of t's, each once, and t is in
\* no_match exactly when that list is empty.
C13_PairsAreSubsetSources ==
    Matched =>
        \A k \in 1..Len(collected_target.files) :
            LET t == collected_target.files[k]
            IN /\ Cardinality(PairsOf(t)) = 1
               /\ \A i \in PairsOf(t) :
                    /\ \A p \in SourcePositions :
                          Occurrences(SourceAt(p), pairs[i].matches) =
                              IF is_subset_of(SourceAt(p).language, t.language)
                              THEN 1 ELSE 0
                    /\ \A j \in 1..Len(pairs[i].matches) :
                          \E p \in SourcePositions : SourceAt(p) = pairs[i].matches[j]
                    /\ in_list(t, no_match) <=> (pairs[i].matches = <<>>)

\* a target paired with the catalogues of two source collections next to a
\* target no source matches
C13_Witness ==
    /\ Matched
    /\ \E i \in 1..Len(pairs) :
          /\ in_list(pairs[i].key, collected_target.files)
          /\ Len(pairs[i].matches) >= 2
          /\ pairs[i].matches[1].path[1] # pairs[i].matches[2].path[1]
    /\ no_match # <<>>

\* the source catalogues no target catalogue consumed
Orphans ==
    {p \in SourcePositions :
        \A k \in 1..Len(collected_target.files) :
            ~is_subset_of(SourceAt(p).language, collected_target.files[k].language)}

OrphanLanguages == {SourceAt(p).language : p \in Orphans}

NewCataloguesOf(l) == {i \in 1..Len(new_catalogues) : new_catalogues[i].language = l}

\* the extension of a name: the last '.' and what follows it
ExtensionStart(name) ==
    IF \E i \in 1..Len(name) : name[i] = "."
    THEN CHOOSE i \in 1..Len(name) :
            name[i] = "." /\ \A j \in (i + 1)..Len(name) : name[j] # "."
    ELSE Len(name) + 1

InsertBeforeExtension(name, suffix) ==
    SubSeq(name, 1, ExtensionStart(name) - 1) \o suffix
        \o SubSeq(name, ExtensionStart(name), Len(name))

\* the name _match gives the new catalogue of a language
ReplaceCatalogueExtension(name, suffix) ==
    IF \E e \in CatalogueExtensions : EndsWith(name, e)
    THEN SubSeq(name, 1, Len(name) - 3) \o suffix \o <<".", "t", "s">>
    ELSE name

\* with a base catalogue: one new catalogue per orphaned language, named by
\* NewName, paired with exactly the orphaned sources of that language;
\* without one: no new catalogue, the orphaned sources are in not_handled
NewCatalogues(NewName(_, _)) ==
    Matched =>
        IF base_catalogue # <<>>
        THEN /\ not_handled = <<>>
             /\ Len(new_catalogues) = Cardinality(OrphanLanguages)
             /\ \A l \in OrphanLanguages :
                  /\ Cardinality(NewCataloguesOf(l)) = 1
                  /\ \A i \in NewCataloguesOf(l) :
                       LET c == new_catalogues[i]
                       IN /\ c.declared = LanguageStr(l)
                          /\ c.path = <<output_path(output),
                                        NewName(base_catalogue, <<"-">> \o LanguageStr(l))>>
                          /\ Cardinality(PairsOf(c)) = 1
                          /\ \A j \in PairsOf(c) :
                               /\ \A p \in SourcePositions :
                                     Occurrences(SourceAt(p), pairs[j].matches) =
                                         IF p \in Orphans /\ SourceAt(p).language = l
                                         THEN 1 ELSE 0
                               /\ \A m \in 1..Len(pairs[j].matches) :
                                     \E p \in Orphans : SourceAt(p) = pairs[j].matches[m]
        ELSE /\ new_catalogues = <<>>
             /\ \A i \in 1..Len(pairs) : in_list(pairs[i].key, collected_target.files)
             /\ \A p \in SourcePositions :
                  Occurrences(SourceAt(p), not_handled) = IF p \in Orphans THEN 1 ELSE 0

\* C11 (as stated): the file name of the new catalogue of language L is the
\* base catalogue's name with '-L' inserted before the extension.
C11_NewCatalogueInsertsLanguage == NewCatalogues(InsertBeforeExtension)

\* C11 (amended): the file name is the base catalogue's name with its
\* extension '.ts' (of any case) replaced by '-L.ts', and the base
\* catalogue's name unchanged when it has no such extension.
C11_NewCatalogueReplacesExtension == NewCatalogues(ReplaceCatalogueExtension)

\* two orphaned sources of one language, of two collections, share the new
\* catalogue of that language
C11_Witness ==
    /\ Matched /\ base_catalogue = aUpperTs
    /\ \E i \in 1..Len(new_catalogues) : \E j \in PairsOf(new_catalogues[i]) :
          /\ Len(pairs[j].matches) = 2
          /\ pairs[j].matches[1].path[1] # pairs[j].matches[2].path[1]
          /\ new_catalogues[i].path[2] =
                <<"a", "-", "a", "a", "_", "B", "B", ".", "t", "s">>

\* the pairs that list a source catalogue, by the kind of their target
LoadedPairsOf(s) ==
    {i \in 1..Len(pairs) :
        in_list(pairs[i].key, collected_target.files) /\ in_list(s, pairs[i].matches)}

NewPairsOf(s) ==
    {i \in 1..Len(pairs) :
        in_list(pairs[i].key, new_catalogues) /\ in_list(s, pairs[i].matches)}

Count(conditions) == Cardinality({i \in DOMAIN conditions : conditions[i]})

\* C29: after _match every catalogue of every source collection is in
\* exactly one of three groups: paired with at least one target catalogue
\* loaded from the target, paired with exactly one new target catalogue,
\* or listed in not_handled.
C29_SourcesPartitioned ==
    Matched =>
        \A p \in SourcePositions :
            LET s == SourceAt(p)
            IN /\ Count(<<LoadedPairsOf(s) # {}, NewPairsOf(s) # {},
                          in_list(s, not_handled)>>) = 1
               /\ Cardinality(NewPairsOf(s)) <= 1
               /\ Occurrences(s, not_handled) <= 1
               /\ \A i \in 1..Len(pairs) : Occurrences(s, pairs[i].matches) <= 1

\* one source catalogue is paired with a loaded target catalogue, another
\* with a new catalogue; without a base catalogue one is not handled
C29_Witness ==
    /\ Matched
    /\ \E p, q \in SourcePositions :
          /\ LoadedPairsOf(SourceAt(p)) # {}
          /\ NewPairsOf(SourceAt(q)) # {}
          /\ Cardinality(LoadedPairsOf(SourceAt(p))) >= 1

C29_WitnessNotHandled ==
    /\ Matched
    /\ \E p, q \in SourcePositions :
          /\ LoadedPairsOf(SourceAt(p)) # {}
          /\ in_list(SourceAt(q), not_handled)

\* C20: a single source file merged into a single target file of another
\* language aborts the run: it does not complete and writes no file.
SingleFiles ==
    /\ target_arg # <<>>
    /\ Len(source_args) = 1 /\ source_args[1].file # <<>>

LanguagesDiffer ==
    /\ ~is_empty(LanguageOfName(target_arg))
    /\ ~is_subset_of(LanguageOfName(source_args[1].file), LanguageOfName(target_arg))

C20_MismatchAborts ==
    (SingleFiles /\ LanguagesDiffer) => (pc # "done" /\ written = <<>>)

(***************************************************************************)
(* Merger._merge with args.interactive                                     *)
(* (src/merge-translations.py:622-764) over several target catalogues,     *)
(* then _save and _report. overall_alternatives holds one group            *)
(* [target, strings] for each target catalogue with a blocked string.      *)
(***************************************************************************)
\* the paths of the target catalogues, as str(path) orders them (line 262)
GroupPaths == <<"t", "u", "v">>

\* a target catalogue: "Hi" and "Bye" blocked, only "Hi" blocked, nothing
\* blocked, two occurrences of "Hi" blocked
GroupTargets(path) ==
    {WithBye(path, <<RunOccurrence(path, <<"A", "", TRUE, "x">>)>>, TRUE, "x"),
     WithBye(path, <<RunOccurrence(path, <<"A", "", TRUE, "x">>)>>, FALSE, ""),
     WithBye(path, <<RunOccurrence(path, <<"A", "", FALSE, "">>)>>, FALSE, ""),
     WithBye(path, <<RunOccurrence(path, <<"A", "", TRUE, "x">>),
                     RunOccurrence(path, <<"B", "", TRUE, "w">>)>>, TRUE, "x")}

\* the one source paired with a target catalogue lists "Hi" and "Bye", or
\* "Hi" only
GroupSources ==
    {WithBye("s1", <<RunOccurrence("s1", <<"A", "", TRUE, "y">>)>>, TRUE, "y"),
     TsFile("s1", [k \in {"Hi"} |-> <<RunOccurrence("s1", <<"A", "", TRUE, "y">>)>>])}

RECURSIVE GroupPairListsOf(_)
GroupPairListsOf(n) ==
    IF n = 0 THEN {<<>>}
    ELSE {Append(l, [key |-> t, matches |-> <<c>>]) :
            l \in GroupPairListsOf(n - 1), t \in GroupTargets(GroupPaths[n]),
            c \in GroupSources}

GroupPairLists(most) == UNION {GroupPairListsOf(n) : n \in 1..most}

\* the variables the run over the groups leaves alone
groupFixed == <<langVars, stringVars, detectVars, argVars, output_dir,
                collected_target, collected_sources, no_match, not_handled,
                new_catalogues, target_file, target_loaded, matches, merged,
                total_changes, total_ambiguous, reverse_file>>

InitGroups ==
    /\ pc = "merge"
    /\ overwrite \in BOOLEAN
    /\ pairs \in GroupPairLists(MaxGroups)
    /\ interactive = TRUE
    /\ force = FALSE
    /\ output = "none"
    /\ source_args = <<>>
    /\ output_dir = "absent"
    /\ written = <<>>
    /\ collected_target = None
    /\ collected_sources = <<>>
    /\ no_match = <<>>
    /\ not_handled = <<>>
    /\ new_catalogues = <<>>
    /\ DetectIdle
    /\ PickIdle
    /\ RunIdle
    /\ LangIdle
    /\ StringIdle

\* line 652: sorted(self.overall_alternatives.keys()), by TsFile.__lt__
sorted_groups(all) ==
    SelectSeq(GroupPaths, LAMBDA path : \E e \in 1..Len(all) : all[e].target = path)

\* self.overall_alternatives[group]
group_index(all, path) == CHOOSE e \in 1..Len(all) : all[e].target = path

\* the TsFile object that is the key of self.pairs and of
\* self.overall_alternatives
pair_index(prs, path) == CHOOSE i \in 1..Len(prs) : prs[i].key.path = path

\* lines 622-652: the batch merge of every pair, then the loop of line 652
\* is set up over the groups
MergeGroups ==
    /\ pc = "merge"
    /\ pairs' = merged_pairs.pairs
    /\ overall_changes' = merged_pairs.overall_changes
    /\ overall_alternatives_count' = merged_pairs.overall_alternatives_count
    /\ overall_alternatives' = merged_pairs.overall_alternatives
    /\ groups' = sorted_groups(merged_pairs.overall_alternatives)
    /\ group' = 0
    /\ pc' = "groups"
    /\ UNCHANGED <<groupFixed, written, pickVars, reported>>

GroupTarget == pairs[pair_index(pairs, groups[group])].key

GroupAlts ==
    overall_alternatives[group_index(overall_alternatives, groups[group])].strings

\* lines 652-666: the loop binds the next group; a group without pending
\* strings is passed over (line 655), the others start with prefer_all = None
NextGroup ==
    /\ pc = "groups"
    /\ group < Len(groups)
    /\ group' = group + 1
    /\ position' = next_key(1, overall_alternatives[
                        group_index(overall_alternatives, groups[group + 1])].strings)
    /\ prefer_all' = ""
    /\ pc' = "group"
    /\ UNCHANGED <<groupFixed, overall_changes, overall_alternatives_count,
                   overall_alternatives, written, pairs, resolved, reported, groups>>

\* the pass of the loop of line 666 that is due in the group
AtGroupKey == pc = "group" /\ position <= Len(KeyOrder)

GroupPickAlts == alternatives_of(GroupAlts, KeyOrder[position])

GroupResolves ==
    /\ prefer_all # ""
    /\ in_by_origin(GroupTarget.path, GroupPickAlts[1].alts, prefer_all)

\* lines 733-738 in the group: the key leaves the group's alternatives and
\* the occurrence of the group's catalogue is merged
ReplaceInGroup(how, new_translation) ==
    LET r == replace_translation(GroupTarget, GroupAlts, KeyOrder[position],
                                 GroupPickAlts[1].key, new_translation, overwrite)
    IN /\ pairs' = [pairs EXCEPT ![pair_index(pairs, groups[group])].key = r.target]
       /\ overall_alternatives' =
             [overall_alternatives EXCEPT
                 ![group_index(overall_alternatives, groups[group])].strings =
                     r.alternatives]
       /\ position' = next_key(position + 1, r.alternatives)
       /\ resolved' = Append(resolved, [group |-> groups[group],
                                        key |-> KeyOrder[position], how |-> how])

\* lines 670-672 in the group
SkipInGroup ==
    /\ AtGroupKey
    /\ Len(GroupPickAlts) > 1
    /\ position' = next_key(position + 1, GroupAlts)
    /\ resolved' = Append(resolved, [group |-> groups[group],
                                     key |-> KeyOrder[position], how |-> "error"])
    /\ UNCHANGED <<groupFixed, pc, overall_changes, overall_alternatives_count,
                   overall_alternatives, written, pairs, prefer_all, reported,
                   groups, group>>

\* lines 740-742 in the group
AutoInGroup ==
    /\ AtGroupKey
    /\ Len(GroupPickAlts) = 1
    /\ GroupResolves
    /\ ReplaceInGroup("auto", by_origin(GroupTarget.path, GroupPickAlts[1].key,
                                        GroupPickAlts[1].alts, prefer_all))
    /\ UNCHANGED <<groupFixed, pc, overall_changes, overall_alternatives_count,
                   written, prefer_all, reported, groups, group>>

\* lines 744-761 in the group: the user selects an entry of the menu
PickInGroup ==
    /\ AtGroupKey
    /\ Len(GroupPickAlts) = 1
    /\ ~GroupResolves
    /\ \E entry \in MenuEntries(GroupPickAlts[1].alts) :
          /\ ReplaceInGroup("picker",
                 selected_of(entry, GroupTarget.path, GroupPickAlts[1].key,
                             GroupPickAlts[1].alts))
          /\ prefer_all' = IF selects_path(entry) THEN GroupTarget.path
                           ELSE prefer_all
    /\ UNCHANGED <<groupFixed, pc, overall_changes, overall_alternatives_count,
                   written, reported, groups, group>>

\* lines 748-752 in the group: the user cancels the menu
AbortInGroup ==
    /\ AtGroupKey
    /\ Len(GroupPickAlts) = 1
    /\ ~GroupResolves
    /\ written' = exit_on_abort(written, GroupTarget)
    /\ pc' = "exited"
    /\ UNCHANGED <<groupFixed, overall_changes, overall_alternatives_count,
                   overall_alternatives, pairs, pickVars, reportVars>>

\* the loop of line 666 is through with the group: back to line 652
EndGroup ==
    /\ pc = "group"
    /\ position > Len(KeyOrder)
    /\ pc' = "groups"
    /\ UNCHANGED <<groupFixed, overall_changes, overall_alternatives_count,
                   overall_alternatives, written, pairs, pickVars, reportVars>>

\* del d[path]
without_group(all, path) == SelectSeq(all, LAMBDA g : g.target # path)

\* line 764 after the loop of line 652, which has bound a group: the entry
\* of the group the loop bound last is deleted
DeleteGroup ==
    /\ pc = "groups"
    /\ group = Len(groups)
    /\ group > 0
    /\ overall_alternatives' = without_group(overall_alternatives, groups[group])
    /\ pc' = "save"
    /\ UNCHANGED <<groupFixed, overall_changes, overall_alternatives_count,
                   written, pairs, pickVars, reportVars>>

\* line 764 after a loop that has bound no group
UnboundGroup ==
    /\ pc = "groups"
    /\ groups = <<>>
    /\ pc' = "failed"
    /\ error' = "UnboundLocalError"
    /\ UNCHANGED <<langVars, stringVars, runVars, target_dir, target_arg,
                   base_catalogue, argVars, diskVars, mergerVars, pickVars,
                   reportVars>>

\* Merger._save: every target catalogue of self.pairs is written
RECURSIVE save_pairs(_, _, _)
save_pairs(prs, disk, i) ==
    IF i > Len(prs) THEN disk
    ELSE save_pairs(prs, save_target(disk, prs[i].key), i + 1)

SaveGroups ==
    /\ pc = "save"
    /\ written' = save_pairs(pairs, written, 1)
    /\ pc' = "report"
    /\ UNCHANGED <<groupFixed, overall_changes, overall_alternatives_count,
                   overall_alternatives, pairs, pickVars, reportVars>>

\* lines 799-800: _report_alternatives for the groups in sorted order; a
\* group without pending strings prints nothing (lines 589-590)
RECURSIVE report_groups(_, _)
report_groups(all, k) ==
    IF k > Len(GroupPaths) THEN <<>>
    ELSE (IF \E e \in 1..Len(all) : all[e].target = GroupPaths[k]
          THEN report_alternatives(all[group_index(all, GroupPaths[k])].strings, 1)
          ELSE <<>>)
         \o report_groups(all, k + 1)

\* Merger._report; run() returns
ReportGroups ==
    /\ pc = "report"
    /\ reported' = report(overall_changes, overall_alternatives_count,
                          Len(overall_alternatives),
                          report_groups(overall_alternatives, 1))
    /\ pc' = "done"
    /\ UNCHANGED <<groupFixed, overall_changes, overall_alternatives_count,
                   overall_alternatives, written, pairs, pickVars, groups, group>>

NextGroups ==
    \/ MergeGroups \/ NextGroup
    \/ SkipInGroup \/ AutoInGroup \/ PickInGroup \/ AbortInGroup
    \/ EndGroup \/ DeleteGroup \/ UnboundGroup
    \/ SaveGroups \/ ReportGroups

SpecGroups == InitGroups /\ [][NextGroups]_vars

(***************************************************************************)
(* Claims about the interactive mode over several target catalogues        *)
(* (checked under SpecGroups)                                              *)
(***************************************************************************)
\* the run is through _report and every string the loop came to was
\* resolved by a selection of the user: at the menu, or by the origin the
\* user selected to be preferred
AllSelected ==
    /\ pc = "done"
    /\ interactive
    /\ \A i \in 1..Len(resolved) : resolved[i].how \in {"picker", "auto"}

\* C28: in the interactive mode, when the user has resolved every blocked
\* string of every target catalogue by a selection, no alternatives are
\* pending for any target catalogue at the end of the merge and the report
\* has no AMBIGUOUS STRINGS section and no 'ambiguous strings' summary line.
C28_NothingPendingAfterSelections ==
    AllSelected =>
        /\ overall_alternatives = <<>>
        /\ ~reported.section
        /\ reported.files = 0

====
